---- MODULE Spec2Model ----
(***************************************************************************)
(* Concurrency benchmark harness (all_runtimes): the Compute Kernel, the   *)
(* Backend Adapters dispatching it over a Workload into a lock-guarded     *)
(* result buffer, the Trial Runner and the Result Aggregator.              *)
(*                                                                         *)
(* Spec        one trial (generate, time, dispatch, record) of one         *)
(*             adapter, with every interleaving of its concurrent units.   *)
(* SpecChunked Spec restricted to the chunked hybrids, over larger         *)
(*             workloads.                                                  *)
(* SpecTrials  Spec repeated: the iterations of one backend.               *)
(* SpecFlume   one trial of the Flume adapter under fair scheduling.       *)
(* SpecKernel  one trial of the std::thread adapter: overlapping calls of  *)
(*             process_value on inputs that repeat.                        *)
(* SpecFault   Spec plus an environment fault: a unit may terminate        *)
(*             abnormally (panic).                                         *)
(* SpecRunner  the per-backend iteration loop and finalization, with the   *)
(*             dispatch as a black box returning after some elapsed time.  *)
(* SpecAgg     the Result Aggregator over a list of finalized records.     *)
(* SpecAdmission  one trial of the AsyncGraphQL-pattern adapter over more  *)
(*             futures than one poll of block_on's future has budget for.  *)
(* SpecCall    one call of process_value, one pass of its loop per step.   *)
(***************************************************************************)
EXTENDS Integers, Sequences, FiniteSets, TLC

(***************************************************************************)
(* Bounds of the model.                                                    *)
(***************************************************************************)
MaxSize == 3
MaxChunkedSize == 5
MaxCpus == 2
MaxSeed == 0
MaxDuration == 1
MaxIter == 2
MaxRecords == 3
MaxBackends == 2
MaxFaults == 1
MaxFaultSize == 2
MaxNanos == 2
MaxTrialSize == 2
MaxCalls == 4
MaxMatrixSize == 3
MaxTail == 1
MaxOver == 3
MaxInput == 2

(***************************************************************************)
(* Compute Kernel: process_value, on u32 held as two 16-bit limbs          *)
(* <<hi, lo>> so that wrapping keeps the width of the type.                *)
(***************************************************************************)
Limb == 65536
Rounds == 1000
Multiplier == 31
Increment == 17
Modulus == 10000
GenRangeEnd == 10000

U32 == (0..(Limb - 1)) \X (0..(Limb - 1))

ToU32(value) == <<value \div Limb, value % Limb>>

\* Faulty variant: a product that stops at u32::MAX instead of wrapping.
saturating_mul(r, m) ==
    LET lo == r[2] * m
        hi == (r[1] * m) + (lo \div Limb)
    IN  IF hi >= Limb THEN <<Limb - 1, Limb - 1>> ELSE <<hi, lo % Limb>>

wrapping_mul(r, m) ==
    LET lo == r[2] * m
        hi == (r[1] * m) + (lo \div Limb)
    IN  <<hi % Limb, lo % Limb>>

wrapping_add(r, a) ==
    LET lo == r[2] + a
        hi == r[1] + (lo \div Limb)
    IN  <<hi % Limb, lo % Limb>>

rem(r, m) == (((r[1] % m) * (Limb % m)) + (r[2] % m)) % m

\* One pass of the loop body: result = result.wrapping_mul(31).wrapping_add(17) % 10000
KernelStep ==
    [r \in U32 |-> ToU32(rem(wrapping_add(wrapping_mul(r, Multiplier), Increment), Modulus))]

\* n passes of the loop body, composed.
RECURSIVE Repeat(_)
Repeat(n) ==
    IF n = 0 THEN [r \in U32 |-> r]
    ELSE IF n = 1 THEN KernelStep
    ELSE [r \in U32 |-> Repeat(n - (n \div 2))[Repeat(n \div 2)[r]]]

process_value(value) == Repeat(Rounds)[ToU32(value)][2]

(***************************************************************************)
(* Workload Generator: data_size values drawn from gen_range(0..10000).    *)
(* The model draws the sequence thread_rng yields from a family indexed    *)
(* by a seed; neighbouring positions get different values.                 *)
(***************************************************************************)
WorkValues == <<0, 4242, GenRangeEnd - 1>>

Seeds == 0..MaxSeed

Workload(seed, size) ==
    [i \in 0..(size - 1) |-> WorkValues[((seed + i) % Len(WorkValues)) + 1]]

\* Faulty variant: a result kept in a static and shared by every later call.
KernelCached ==
    [v \in {WorkValues[j] : j \in 1..Len(WorkValues)} |-> process_value(WorkValues[1])]

\* process_value over the values the generator yields, computed once.
Kernel == [v \in {WorkValues[j] : j \in 1..Len(WorkValues)} |-> process_value(v)]

(***************************************************************************)
(* Backend Adapters.                                                       *)
(***************************************************************************)
IndependentSpawn ==
    {"Tokio", "async-std", "smol", "Actix", "Rayon", "std::thread", "Crossbeam"}
ChunkedHybrid == {"Tokio+Rayon", "async-std+Crossbeam"}
QueueCollector == {"Flume"}
BoundedAdmission == {"AsyncGraphQL-pattern"}
RowPartition == {"Nalgebra+Tokio"}
Workgroups == {"WGPU-pattern"}

Adapters ==
    IndependentSpawn \cup ChunkedHybrid \cup QueueCollector
        \cup BoundedAdmission \cup RowPartition \cup Workgroups

\* Faulty variant: the result buffer allocated before the start-clock sample.
AllocBeforeStart(a) ==
    <<"gen", "alloc", "start", "spawn", "join", "stop", "record">>

\* The main thread's steps in one trial of each adapter, in program order.
Program(a) ==
    CASE a \in {"Tokio", "Actix"} ->
            <<"gen", "start", "rt_new", "alloc", "spawn", "join",
              "stop", "record", "rt_drop">>
      [] a \in {"async-std", "smol", "std::thread"} ->
            <<"gen", "start", "alloc", "spawn", "join", "stop", "record">>
      [] a \in {"Rayon", "Crossbeam"} ->
            <<"gen", "start", "alloc", "spawn", "scope_end", "stop", "record">>
      [] a = "Tokio+Rayon" ->
            <<"gen", "start", "rt_new", "alloc", "chunks", "spawn_task",
              "join_task", "stop", "record", "rt_drop">>
      [] a = "async-std+Crossbeam" ->
            <<"gen", "start", "alloc", "chunks", "spawn_task", "join_task",
              "stop", "record">>
      [] a = "Flume" ->
            <<"gen", "start", "channels", "spawn_worker", "send_work",
              "drop_work_sender", "drop_result_sender", "spawn_collector",
              "join_worker", "join_collector", "stop", "record">>
      [] a = "Nalgebra+Tokio" ->
            <<"gen", "start", "alloc", "rt_new", "spawn_rows", "join",
              "stop", "record", "rt_drop">>
      [] a = "AsyncGraphQL-pattern" ->
            <<"gen", "start", "rt_new", "alloc", "push_future", "join_all",
              "stop", "record", "rt_drop">>
      [] a = "WGPU-pattern" ->
            <<"gen", "start", "alloc", "spawn_group", "scope_end",
              "stop", "record">>

VARIABLES
    call_value,     \* process_value's argument value, as <<hi, lo>>
    result,         \* process_value's local result, as <<hi, lo>>
    adapter,        \* the backend under trial
    data_size,      \* configured number of work units per trial
    num_cpus,       \* num_cpus::get()
    iterations,     \* configured trials per backend
    mpc,            \* the main thread's position
    k,              \* index of the main thread's current loop
    iter,           \* trials of this backend completed
    data,           \* the Workload of this trial, indexed from 0
    results,        \* the result buffer behind the Mutex
    writes,         \* per slot: writes received in this dispatch
    lock,           \* holders of the Mutex guard
    poisoned,       \* a holder panicked with the guard alive
    unit,           \* spawned concurrent units
    task,           \* per-chunk tasks of the chunked adapters
    chunks,         \* data.chunks(..)
    work_q,         \* flume work channel
    result_q,       \* flume result channel
    work_sender,    \* the work Sender is alive
    result_sender,  \* the main thread's result Sender is alive
    worker,         \* flume worker threads
    collector,      \* flume collector thread
    permits,        \* available permits of the Semaphore
    budget,         \* operations the runtime lets block_on's future do before it yields
    yielded,        \* futures that yielded in join_all's current poll
    all_futures,    \* the futures handed to join_all, in the order it polls them
    faults,         \* abnormal terminations injected so far
    runtime,        \* the per-trial runtime / System instance
    clock,          \* the trial's Instant: unset, running, stopped
    duration,       \* start.elapsed()
    best,           \* running minimum
    times,          \* recorded series
    avg,            \* mean, set at finalization
    bench_results,  \* records pushed by the benchmark function
    pending,        \* backends the benchmark function has still to run
    all_results,    \* the aggregator's combined list
    overall_best,   \* all_results[0] after the sort by best time
    sorted_by_avg,  \* the aggregator's by-mean view
    category_view,  \* the aggregator's per-category views
    percent         \* percentages computed per view

config == <<adapter, data_size, num_cpus, iterations>>
call == <<call_value, result>>
mainv == <<mpc, k, iter, faults>>
buffer == <<results, writes, lock, poisoned>>
spawned == <<unit, task, chunks>>
flume == <<work_q, result_q, work_sender, result_sender, worker, collector>>
coop == <<budget, yielded, all_futures>>
admission == <<permits, coop>>
timing == <<clock, duration, best, times, avg>>
runner == <<bench_results, pending>>
aggregator == <<all_results, overall_best, sorted_by_avg, category_view, percent>>

vars ==
    <<config, call, mainv, data, buffer, spawned, flume, admission, runtime,
      timing, runner, aggregator>>


(***************************************************************************)
(* Helpers.                                                                *)
(***************************************************************************)
\* Vec::len / slice::len of a vector indexed from 0
len(f) == Cardinality(DOMAIN f)

Min(a, b) == IF a < b THEN a ELSE b
Max(a, b) == IF a < b THEN b ELSE a

\* Duration::from_secs(u64::MAX): larger than any elapsed time.
DurationSentinel == MaxDuration + 1

Durations == 0..MaxDuration

IndexOf(seq, x) == CHOOSE i \in 1..Len(seq) : seq[i] = x

Position(label) ==
    IF label = "end" THEN Len(Program(adapter)) + 1
    ELSE IF label = "panicked" THEN 0
    ELSE IndexOf(Program(adapter), label)

After(label) ==
    LET p == Program(adapter)
        i == IndexOf(p, label)
    IN  IF i = Len(p) THEN "end" ELSE p[i + 1]

At(label) == mpc = label

Advance == mpc' = After(mpc) /\ k' = 0 /\ UNCHANGED <<iter, faults>>
Loop == mpc' = mpc /\ k' = k + 1 /\ UNCHANGED <<iter, faults>>
Panic == mpc' = "panicked" /\ k' = k /\ UNCHANGED <<iter, faults>>

\* The dispatch has returned to the Trial Runner (the clock is about to be
\* read, or has been).
Returned == Position(mpc) >= Position("stop")

(***************************************************************************)
(* One concurrent unit: the cells it has still to process (target slot     *)
(* and input value), the value it computed for the first of them, the task *)
(* whose scope owns it, and whether it holds a Semaphore permit.           *)
(***************************************************************************)
Cell(idx, value) == [idx |-> idx, value |-> value]

NewUnit(pc, todo, owner) ==
    [pc |-> IF todo = <<>> THEN "done" ELSE pc,
     todo |-> todo, processed |-> 0, owner |-> owner, permit |-> FALSE]

Units == 1..Len(unit)

\* Faulty variant: a unit taken as ended whatever its state.
Detached(u) == TRUE

\* The unit has ended: its JoinHandle is ready.
Finished(u) == unit[u].pc \in {"done", "failed"}

UnitId(u) == <<"unit", u>>
CollectorId == <<"collector", 1>>

\* Executors with one thread run their tasks in spawn order while the main
\* future is pending; a task without an await point runs to completion.
LocalExecutor == {"Actix"}

\* Faulty variant: the queue polled from its back.
PolledFromBack ==
    LET waiting == SelectSeq(all_futures, LAMBDA u : ~Finished(u))
    IN  IF waiting = <<>> THEN <<>> ELSE <<waiting[Len(waiting)]>>

\* join_all over more than 30 futures collects them into a FuturesOrdered,
\* which polls them from the front of its ready-to-run queue: the future
\* polled is the first one of the queue that has not completed.
Polled ==
    LET waiting == SelectSeq(all_futures, LAMBDA u : ~Finished(u))
    IN  IF waiting = <<>> THEN <<>> ELSE <<Head(waiting)>>

Runnable(u) ==
    IF adapter \in LocalExecutor THEN
        At("join") /\ \A v \in 1..(u - 1) : Finished(v)
    ELSE IF adapter \in BoundedAdmission THEN
        At("join_all") /\ Polled = <<u>>
    ELSE TRUE

\* Threads that run this adapter's units: the default worker pools of tokio,
\* async-std and rayon have num_cpus threads, smol's global executor has one,
\* and std::thread / crossbeam::scope give every unit a thread of its own.
\* The closure passed to rayon::scope itself runs on a pool thread.
PoolSize ==
    CASE adapter \in {"Tokio", "async-std", "Tokio+Rayon", "Nalgebra+Tokio"} -> num_cpus
      [] adapter \in {"Rayon", "WGPU-pattern"} ->
            IF mpc \in {"spawn", "spawn_group"} THEN num_cpus - 1 ELSE num_cpus
      [] adapter = "smol" -> 1
      [] OTHER -> Len(unit)

\* Units that occupy a thread: started and not yet ended.
Busy == Cardinality({u \in Units : unit[u].pc \in {"computed", "holding"}})

\* Worker threads of the executor that runs the per-chunk tasks.
TaskPoolSize == num_cpus

BusyTasks == Cardinality({t \in 1..Len(task) : task[t].pc = "scope"})

(***************************************************************************)
(* The Mutex-guarded result buffer.                                        *)
(***************************************************************************)
LockFree == lock = {}

\* Faulty variant: a lock() that does not wait for the guard to be dropped.
AcquireUnguarded(holder) == lock' = lock \cup {holder}

\* results.lock(): blocks while another guard is alive.
Acquire(holder) == LockFree /\ lock' = {holder}

\* Faulty variant: a guard declared outside the loop and kept across writes.
KeepGuard(holder) == lock' = lock

\* Dropping the guard.
Release(holder) == lock' = lock \ {holder}

\* Faulty variant: the store lands one slot further.
StoreNext(buf, idx, value) ==
    IF (idx + 1) \in DOMAIN buf THEN [buf EXCEPT ![idx + 1] = value] ELSE buf

\* results[idx] = processed
Store(buf, idx, value) == [buf EXCEPT ![idx] = value]

Counted(w, idx) == [w EXCEPT ![idx] = @ + 1]

\* vec![0; len]
Zeroed(n) == [i \in 0..(n - 1) |-> 0]


(***************************************************************************)
(* The Trial Runner's steps around one dispatch.                           *)
(***************************************************************************)
\* (data_size as f64).sqrt() as usize
RECURSIVE isqrt_from(_, _)
isqrt_from(n, r) == IF (r + 1) * (r + 1) > n THEN r ELSE isqrt_from(n, r + 1)

matrix_size == isqrt_from(data_size, 0)

\* Number of values the generator is asked for.
GenSize ==
    IF adapter \in RowPartition THEN matrix_size * matrix_size ELSE data_size

\* let data: Vec<u32> = (0..data_size).map(|_| rng.gen_range(0..10000)).collect();
Gen ==
    /\ At("gen")
    /\ \E seed \in Seeds : data' = Workload(seed, GenSize)
    /\ Advance
    /\ UNCHANGED <<config, call, buffer, spawned, flume, admission, runtime, timing,
                   runner, aggregator>>

\* let start = Instant::now();
StartClock ==
    /\ At("start")
    /\ clock' = "running"
    /\ Advance
    /\ UNCHANGED <<config, call, data, buffer, spawned, flume, admission, runtime,
                   duration, best, times, avg, runner, aggregator>>

\* tokio::runtime::Runtime::new().unwrap() / actix_rt::System::new()
RuntimeNew ==
    /\ At("rt_new")
    /\ runtime' = "alive"
    /\ Advance
    /\ UNCHANGED <<config, call, data, buffer, spawned, flume, admission, timing,
                   runner, aggregator>>

\* Semaphore::new(num_cpus::get())
\* The budget runtime.block_on gives its future at each poll: 128 operations
\* on the runtime's resources, after which the next one returns Pending.
CoopBudget == 128

BudgetNew == IF adapter \in BoundedAdmission THEN CoopBudget ELSE budget

SemaphoreNew == IF adapter \in BoundedAdmission THEN num_cpus ELSE permits

\* let results = Arc::new(Mutex::new(vec![0; data_arc.len()]));
Alloc ==
    /\ At("alloc")
    /\ results' = Zeroed(len(data))
    /\ writes' = Zeroed(len(data))
    /\ permits' = SemaphoreNew
    /\ budget' = BudgetNew
    /\ UNCHANGED <<yielded, all_futures>>
    /\ Advance
    /\ UNCHANGED <<config, call, data, lock, poisoned, spawned, flume, runtime,
                   timing, runner, aggregator>>

\* for (idx, &value) in data_arc.iter().enumerate() { spawn(..) }
SpawnUnit ==
    /\ At("spawn")
    /\ IF k < len(data)
         THEN /\ unit' = Append(unit, NewUnit("ready", <<Cell(k, data[k])>>, 0))
              /\ Loop
         ELSE /\ unit' = unit
              /\ Advance
    /\ UNCHANGED <<config, call, data, buffer, task, chunks, flume, admission, runtime,
                   timing, runner, aggregator>>

\* Adapters whose join loop discards the handle's result: let _ = handle.await;
DiscardsJoinError == {"Actix"}

\* for handle in handles { handle.await / handle.join() }
Join ==
    /\ At("join")
    /\ IF k < Len(unit)
         THEN /\ Finished(k + 1)
              /\ IF unit[k + 1].pc = "failed" /\ adapter \notin DiscardsJoinError
                   THEN Panic
                   ELSE Loop
         ELSE Advance
    /\ UNCHANGED <<config, call, data, buffer, spawned, flume, admission, runtime,
                   timing, runner, aggregator>>

\* The end of rayon::scope / crossbeam::scope: every spawned closure has
\* ended, and a panic of any of them is raised again.
ScopeEnd ==
    /\ At("scope_end")
    /\ \A u \in Units : Finished(u)
    /\ IF \E u \in Units : unit[u].pc = "failed" THEN Panic ELSE Advance
    /\ UNCHANGED <<config, call, data, buffer, spawned, flume, admission, runtime,
                   timing, runner, aggregator>>

\* let duration = start.elapsed();
StopClock ==
    /\ At("stop")
    /\ \E d \in Durations : duration' = d
    /\ clock' = "stopped"
    /\ Advance
    /\ UNCHANGED <<config, call, data, buffer, spawned, flume, admission, runtime,
                   best, times, avg, runner, aggregator>>

\* if duration < best { best = duration; }
\* Faulty variant: best overwritten by every sample.
LatestSample(b, d) == d

\* if duration < best { best = duration; }
RunningBest(b, d) == IF d < b THEN d ELSE b

\* if duration < best { best = duration; }   times.push(duration);
Record ==
    /\ At("record")
    /\ best' = RunningBest(best, duration)
    /\ times' = Append(times, duration)
    /\ mpc' = After(mpc) /\ k' = 0 /\ iter' = iter + 1 /\ faults' = faults
    /\ UNCHANGED <<config, call, data, buffer, spawned, flume, admission, runtime,
                   clock, duration, avg, runner, aggregator>>

\* The runtime / System goes out of scope at the end of the loop body.
RuntimeDrop ==
    /\ At("rt_drop")
    /\ runtime' = "dropped"
    /\ Advance
    /\ UNCHANGED <<config, call, data, buffer, spawned, flume, admission, timing,
                   runner, aggregator>>

(***************************************************************************)
(* A unit's steps: process_value, lock, write and drop the guard.          *)
(***************************************************************************)
\* A future that woke itself while returning Pending goes to the back of the
\* ready-to-run queue.
Requeue(q, u) == SelectSeq(q, LAMBDA v : v # u) \o <<u>>

\* let _permit = semaphore_clone.acquire().await.unwrap();
\* acquire() first asks the runtime for budget: with none left it wakes its
\* future and returns Pending without taking a permit.  After two such yields,
\* or when every future left has been polled, join_all returns Pending and
\* block_on polls it again with a fresh budget.
AcquirePermit(u) ==
    /\ u \in Units
    /\ unit[u].pc = "pending"
    /\ Runnable(u)
    /\ IF budget = 0
         THEN /\ all_futures' = Requeue(all_futures, u)
              /\ IF yielded + 1 >= 2
                      \/ yielded + 1 = Cardinality({v \in Units : ~Finished(v)})
                   THEN budget' = CoopBudget /\ yielded' = 0
                   ELSE budget' = budget /\ yielded' = yielded + 1
              /\ UNCHANGED <<permits, unit>>
         ELSE /\ permits > 0
              /\ permits' = permits - 1
              /\ budget' = budget - 1
              /\ unit' = [unit EXCEPT ![u].pc = "ready", ![u].permit = TRUE]
              /\ UNCHANGED <<yielded, all_futures>>
    /\ UNCHANGED <<config, call, mainv, data, buffer, task, chunks, flume, runtime,
                   timing, runner, aggregator>>

\* let processed = process_value(value);
Compute(u) ==
    /\ u \in Units
    /\ unit[u].pc = "ready"
    /\ Runnable(u)
    /\ Busy < PoolSize
    /\ unit' = [unit EXCEPT ![u].pc = "computed",
                            ![u].processed = Kernel[Head(unit[u].todo).value]]
    /\ UNCHANGED <<config, call, mainv, data, buffer, task, chunks, flume, admission,
                   runtime, timing, runner, aggregator>>

\* Faulty variant: the permit is never given back.
KeepPermit(p, held) == p

\* _permit goes out of scope
ReleasePermit(p, held) == IF held THEN p + 1 ELSE p

\* let mut results = results_clone.lock().unwrap();
Lock(u) ==
    /\ u \in Units
    /\ unit[u].pc = "computed"
    /\ Runnable(u)
    /\ IF poisoned
         THEN /\ LockFree
              /\ lock' = lock
              /\ unit' = [unit EXCEPT ![u].pc = "failed", ![u].permit = FALSE]
              /\ permits' = ReleasePermit(permits, unit[u].permit)
              /\ IF adapter \in BoundedAdmission THEN Panic ELSE UNCHANGED mainv
         ELSE /\ Acquire(UnitId(u))
              /\ unit' = [unit EXCEPT ![u].pc = "holding"]
              /\ permits' = permits
              /\ UNCHANGED mainv
    /\ UNCHANGED <<config, call, data, results, writes, poisoned, task, chunks, coop,
                   flume, runtime, timing, runner, aggregator>>

\* results[idx] = processed;  then the guard (and the permit) is dropped
Write(u) ==
    /\ u \in Units
    /\ unit[u].pc = "holding"
    /\ Runnable(u)
    /\ LET cell == Head(unit[u].todo)
           rest == Tail(unit[u].todo)
       IN  IF cell.idx \in DOMAIN results
             THEN /\ results' = Store(results, cell.idx, unit[u].processed)
                  /\ writes' = Counted(writes, cell.idx)
                  /\ poisoned' = poisoned
                  /\ unit' = [unit EXCEPT ![u].pc = IF rest = <<>> THEN "done" ELSE "ready",
                                          ![u].todo = rest,
                                          ![u].permit = FALSE]
                  /\ UNCHANGED mainv
             ELSE /\ poisoned' = TRUE
                  /\ unit' = [unit EXCEPT ![u].pc = "failed", ![u].permit = FALSE]
                  /\ IF adapter \in BoundedAdmission THEN Panic ELSE UNCHANGED mainv
                  /\ UNCHANGED <<results, writes>>
    /\ Release(UnitId(u))
    /\ permits' = ReleasePermit(permits, unit[u].permit)
    /\ UNCHANGED <<config, call, data, task, chunks, flume, coop, runtime, timing,
                   runner, aggregator>>


(***************************************************************************)
(* Chunked hybrids (Tokio+Rayon, async-std+Crossbeam): one task per chunk, *)
(* each running a scope that spawns one closure per item of its chunk.     *)
(***************************************************************************)
\* data_arc.len() / num_cpus::get().max(1)
ChunkSize == len(data) \div Max(num_cpus, 1)

\* slice::chunks(size): consecutive runs of size items, the last one shorter
\* when size does not divide the length.
Chunks(d, size) ==
    [j \in 1..((len(d) + size - 1) \div size) |->
        [i \in 1..Min(size, len(d) - ((j - 1) * size)) |-> d[((j - 1) * size) + i - 1]]]

\* let chunks: Vec<_> = data_arc.chunks(..).collect();   (panics on size 0)
MakeChunks ==
    /\ At("chunks")
    /\ IF ChunkSize = 0
         THEN chunks' = chunks /\ Panic
         ELSE chunks' = Chunks(data, ChunkSize) /\ Advance
    /\ UNCHANGED <<config, call, data, buffer, unit, task, flume, admission, runtime,
                   timing, runner, aggregator>>

\* for (chunk_idx, chunk) in chunks.iter().enumerate() { spawn(async move {..}) }
SpawnTask ==
    /\ At("spawn_task")
    /\ IF k < Len(chunks)
         THEN /\ task' = Append(task, [pc |-> "ready", chunk_idx |-> k,
                                       chunk_data |-> chunks[k + 1]])
              /\ Loop
         ELSE /\ task' = task
              /\ Advance
    /\ UNCHANGED <<config, call, data, buffer, unit, chunks, flume, admission, runtime,
                   timing, runner, aggregator>>

\* Faulty variant: the chunk's index taken as its start position.
OffsetByIndex(chunk_idx, chunk_data) == chunk_idx

\* let offset = chunk_idx * chunk_data.len();
Offset(chunk_idx, chunk_data) == chunk_idx * Len(chunk_data)

\* scope(|s| for (i, &value) in chunk_data.iter().enumerate() { s.spawn(..) })
TaskScope(t) ==
    /\ t \in 1..Len(task)
    /\ task[t].pc = "ready"
    /\ BusyTasks < TaskPoolSize
    /\ LET offset == Offset(task[t].chunk_idx, task[t].chunk_data)
       IN  unit' = unit \o
                [i \in 1..Len(task[t].chunk_data) |->
                    NewUnit("ready", <<Cell(offset + (i - 1), task[t].chunk_data[i])>>, t)]
    /\ task' = [task EXCEPT ![t].pc = "scope"]
    /\ UNCHANGED <<config, call, mainv, data, buffer, chunks, flume, admission,
                   runtime, timing, runner, aggregator>>

\* The scope ends when its closures have ended; a panic among them ends the
\* task with that panic.
TaskScopeEnd(t) ==
    /\ t \in 1..Len(task)
    /\ task[t].pc = "scope"
    /\ \A u \in Units : unit[u].owner = t => Finished(u)
    /\ task' = [task EXCEPT ![t].pc =
                    IF \E u \in Units : unit[u].owner = t /\ unit[u].pc = "failed"
                    THEN "failed" ELSE "done"]
    /\ UNCHANGED <<config, call, mainv, data, buffer, unit, chunks, flume, admission,
                   runtime, timing, runner, aggregator>>

\* for handle in handles { handle.await.unwrap() / handle.await }
JoinTask ==
    /\ At("join_task")
    /\ IF k < Len(task)
         THEN /\ task[k + 1].pc \in {"done", "failed"}
              /\ IF task[k + 1].pc = "failed" THEN Panic ELSE Loop
         ELSE Advance
    /\ UNCHANGED <<config, call, data, buffer, spawned, flume, admission, runtime,
                   timing, runner, aggregator>>

(***************************************************************************)
(* Nalgebra+Tokio: one task per CPU over a range of matrix rows.           *)
(***************************************************************************)
RECURSIVE bit_length(_)
bit_length(v) == IF v = 0 THEN 0 ELSE 1 + bit_length(v \div 2)

\* u32 as f32: round to nearest, ties to even, at 24 bits of precision.
as_f32(v) ==
    LET q == 2 ^ Max(bit_length(v) - 24, 0)
        lo == (v \div q) * q
        r == v - lo
    IN  IF 2 * r < q THEN lo
        ELSE IF 2 * r > q THEN lo + q
        ELSE IF (lo \div q) % 2 = 0 THEN lo ELSE lo + q

\* f32 as u32 of an integral value
as_u32(f) == IF f < 0 THEN 0 ELSE f

\* na::DMatrix::from_vec(n, n, values)[(row, col)]: column-major storage.
MatrixAt(values, n, row, col) == as_f32(values[(col * n) + row])

RowChunk == matrix_size \div Max(num_cpus, 1)

start_row(i) == i * RowChunk

\* Faulty variant: the last task stops at its even share of the rows.
EvenEndRow(i) == (i + 1) * RowChunk

\* let end_row = if i == num_cpus::get().max(1) - 1 { matrix_size } else { (i + 1) * chunk_size };
end_row(i) == IF i = Max(num_cpus, 1) - 1 THEN matrix_size ELSE (i + 1) * RowChunk

\* for row in start_row..end_row { for col in 0..matrix_size { .. } }
RowCells(i) ==
    LET rows == Max(end_row(i) - start_row(i), 0)
    IN  [j \in 1..(rows * matrix_size) |->
            LET row == start_row(i) + ((j - 1) \div matrix_size)
                col == (j - 1) % matrix_size
            IN  Cell((row * matrix_size) + col,
                     as_u32(MatrixAt(data, matrix_size, row, col)))]

\* for i in 0..num_cpus::get().max(1) { tokio::spawn(..) }
SpawnRows ==
    /\ At("spawn_rows")
    /\ IF k < Max(num_cpus, 1)
         THEN /\ unit' = Append(unit, NewUnit("ready", RowCells(k), 0))
              /\ Loop
         ELSE /\ unit' = unit
              /\ Advance
    /\ UNCHANGED <<config, call, data, buffer, task, chunks, flume, admission, runtime,
                   timing, runner, aggregator>>

(***************************************************************************)
(* WGPU-pattern: one rayon closure per workgroup of WORKGROUP_SIZE items.  *)
(***************************************************************************)
WORKGROUP_SIZE == 256

\* Faulty variant: only the full workgroups are counted.
WholeGroups == len(data) \div WORKGROUP_SIZE

\* (data_arc.len() + WORKGROUP_SIZE - 1) / WORKGROUP_SIZE
NumGroups == (len(data) + WORKGROUP_SIZE - 1) \div WORKGROUP_SIZE

start_idx(chunk_idx) == chunk_idx * WORKGROUP_SIZE

end_idx(chunk_idx) == Min(start_idx(chunk_idx) + WORKGROUP_SIZE, len(data))

\* for i in start_idx..end_idx
GroupCells(chunk_idx) ==
    [j \in 1..Max(end_idx(chunk_idx) - start_idx(chunk_idx), 0) |->
        Cell(start_idx(chunk_idx) + j - 1, data[start_idx(chunk_idx) + j - 1])]

\* for chunk_idx in 0..(len + WORKGROUP_SIZE - 1) / WORKGROUP_SIZE { s.spawn(..) }
SpawnGroup ==
    /\ At("spawn_group")
    /\ IF k < NumGroups
         THEN /\ unit' = Append(unit, NewUnit("ready", GroupCells(k), 0))
              /\ Loop
         ELSE /\ unit' = unit
              /\ Advance
    /\ UNCHANGED <<config, call, data, buffer, task, chunks, flume, admission, runtime,
                   timing, runner, aggregator>>

(***************************************************************************)
(* AsyncGraphQL-pattern: one future per item, admitted by a Semaphore, all *)
(* driven by join_all on the main task.                                    *)
(***************************************************************************)
\* for (idx, &value) in data_arc.iter().enumerate() { all_futures.push(async move {..}) }
PushFuture ==
    /\ At("push_future")
    /\ IF k < len(data)
         THEN /\ unit' = Append(unit, NewUnit("pending", <<Cell(k, data[k])>>, 0))
              /\ all_futures' = Append(all_futures, Len(unit) + 1)
              /\ Loop
         ELSE /\ unit' = unit
              /\ all_futures' = all_futures
              /\ Advance
    /\ UNCHANGED <<config, call, data, buffer, task, chunks, flume, permits, budget,
                   yielded, runtime, timing, runner, aggregator>>

\* futures::future::join_all(all_futures).await;
JoinAll ==
    /\ At("join_all")
    /\ \A u \in Units : unit[u].pc = "done"
    /\ Advance
    /\ UNCHANGED <<config, call, data, buffer, spawned, flume, admission, runtime,
                   timing, runner, aggregator>>


(***************************************************************************)
(* Flume: worker threads pull (idx, value) from the work channel and push  *)
(* (idx, processed) to the result channel; a collector thread writes them. *)
(***************************************************************************)
IdleWorker == [pc |-> "recv", idx |-> 0, value |-> 0, processed |-> 0]

NoCollector == [pc |-> "unspawned", idx |-> 0, result |-> 0, remaining |-> 0]

Workers == 1..Len(worker)

\* A worker's clone of result_sender lives as long as its thread.
WorkerAlive(w) == worker[w].pc \notin {"exited", "failed"}

\* Some Sender of the result channel is alive.
ResultSendersAlive == result_sender \/ \E w \in Workers : WorkerAlive(w)

\* Faulty variant: the receiver lives only while the collector runs.
ReceiverInCollectorOnly == collector.pc \notin {"unspawned", "exited", "failed"}

\* result_receiver is alive: held by the main thread, then by the collector.
ResultReceiverAlive == collector.pc \notin {"exited", "failed"}

\* flume::unbounded() twice, and the result buffer
Channels ==
    /\ At("channels")
    /\ work_q' = <<>>
    /\ result_q' = <<>>
    /\ work_sender' = TRUE
    /\ result_sender' = TRUE
    /\ results' = Zeroed(len(data))
    /\ writes' = Zeroed(len(data))
    /\ Advance
    /\ UNCHANGED <<config, call, data, lock, poisoned, spawned, worker, collector,
                   admission, runtime, timing, runner, aggregator>>

\* for _ in 0..num_threads { std::thread::spawn(..) }
SpawnWorker ==
    /\ At("spawn_worker")
    /\ IF k < num_cpus
         THEN worker' = Append(worker, IdleWorker) /\ Loop
         ELSE worker' = worker /\ Advance
    /\ UNCHANGED <<config, call, data, buffer, spawned, work_q, result_q,
                   work_sender, result_sender, collector, admission, runtime,
                   timing, runner, aggregator>>

\* for (idx, &value) in data_arc.iter().enumerate() { work_sender.send((idx, value)).unwrap(); }
SendWork ==
    /\ At("send_work")
    /\ IF k < len(data)
         THEN work_q' = Append(work_q, <<k, data[k]>>) /\ Loop
         ELSE work_q' = work_q /\ Advance
    /\ UNCHANGED <<config, call, data, buffer, spawned, result_q, work_sender,
                   result_sender, worker, collector, admission, runtime, timing,
                   runner, aggregator>>

\* drop(work_sender);
DropWorkSender ==
    /\ At("drop_work_sender")
    /\ work_sender' = FALSE
    /\ Advance
    /\ UNCHANGED <<config, call, data, buffer, spawned, work_q, result_q,
                   result_sender, worker, collector, admission, runtime, timing,
                   runner, aggregator>>

\* drop(result_sender);
DropResultSender ==
    /\ At("drop_result_sender")
    /\ result_sender' = FALSE
    /\ Advance
    /\ UNCHANGED <<config, call, data, buffer, spawned, work_q, result_q,
                   work_sender, worker, collector, admission, runtime, timing,
                   runner, aggregator>>

\* let collector_handle = std::thread::spawn(move || { let mut remaining = data_arc.len(); .. });
SpawnCollector ==
    /\ At("spawn_collector")
    /\ collector' = [NoCollector EXCEPT !.pc = "recv", !.remaining = len(data)]
    /\ Advance
    /\ UNCHANGED <<config, call, data, buffer, spawned, work_q, result_q,
                   work_sender, result_sender, worker, admission, runtime,
                   timing, runner, aggregator>>

\* Faulty variant: a Sender of the work channel is never dropped.
WorkSendersKept == FALSE

\* Every Sender of the work channel has been dropped: recv() on the empty
\* channel returns Err(Disconnected).
WorkSendersGone == ~work_sender

\* while let Ok((idx, value)) = receiver.recv()
WorkerRecv(w) ==
    /\ w \in Workers
    /\ worker[w].pc = "recv"
    /\ IF work_q # <<>>
         THEN /\ worker' = [worker EXCEPT ![w].pc = "got",
                                          ![w].idx = Head(work_q)[1],
                                          ![w].value = Head(work_q)[2]]
              /\ work_q' = Tail(work_q)
         ELSE /\ WorkSendersGone
              /\ worker' = [worker EXCEPT ![w].pc = "exited"]
              /\ work_q' = work_q
    /\ UNCHANGED <<config, call, mainv, data, buffer, spawned, result_q, work_sender,
                   result_sender, collector, admission, runtime, timing, runner,
                   aggregator>>

\* let processed = process_value(value);
WorkerCompute(w) ==
    /\ w \in Workers
    /\ worker[w].pc = "got"
    /\ worker' = [worker EXCEPT ![w].pc = "computed",
                                ![w].processed = Kernel[worker[w].value]]
    /\ UNCHANGED <<config, call, mainv, data, buffer, spawned, work_q, result_q,
                   work_sender, result_sender, collector, admission, runtime,
                   timing, runner, aggregator>>

\* Faulty variant: the message is delivered twice.
SendTwice(q, msg) == Append(Append(q, msg), msg)

\* Sender::send on an unbounded channel
Send(q, msg) == Append(q, msg)

\* sender.send((idx, processed)).unwrap();
WorkerSend(w) ==
    /\ w \in Workers
    /\ worker[w].pc = "computed"
    /\ IF ResultReceiverAlive
         THEN /\ result_q' = Send(result_q, <<worker[w].idx, worker[w].processed>>)
              /\ worker' = [worker EXCEPT ![w].pc = "recv"]
         ELSE /\ result_q' = result_q
              /\ worker' = [worker EXCEPT ![w].pc = "failed"]
    /\ UNCHANGED <<config, call, mainv, data, buffer, spawned, work_q, work_sender,
                   result_sender, collector, admission, runtime, timing, runner,
                   aggregator>>

\* while remaining > 0 { if let Ok((idx, result)) = result_receiver.recv() {..} else { break; } }
CollectorRecv ==
    /\ collector.pc = "recv"
    /\ IF collector.remaining = 0
         THEN collector' = [collector EXCEPT !.pc = "exited"] /\ result_q' = result_q
         ELSE IF result_q # <<>>
         THEN /\ collector' = [collector EXCEPT !.pc = "got",
                                                !.idx = Head(result_q)[1],
                                                !.result = Head(result_q)[2]]
              /\ result_q' = Tail(result_q)
         ELSE /\ ~ResultSendersAlive
              /\ collector' = [collector EXCEPT !.pc = "exited"]
              /\ result_q' = result_q
    /\ UNCHANGED <<config, call, mainv, data, buffer, spawned, work_q, work_sender,
                   result_sender, worker, admission, runtime, timing, runner,
                   aggregator>>

\* let mut results = results_ref.lock().unwrap();
CollectorLock ==
    /\ collector.pc = "got"
    /\ IF poisoned
         THEN /\ LockFree
              /\ lock' = lock
              /\ collector' = [collector EXCEPT !.pc = "failed"]
         ELSE /\ Acquire(CollectorId)
              /\ collector' = [collector EXCEPT !.pc = "holding"]
    /\ UNCHANGED <<config, call, mainv, data, results, writes, poisoned, spawned,
                   work_q, result_q, work_sender, result_sender, worker,
                   admission, runtime, timing, runner, aggregator>>

\* results[idx] = result;  remaining -= 1;
CollectorWrite ==
    /\ collector.pc = "holding"
    /\ IF collector.idx \in DOMAIN results
         THEN /\ results' = Store(results, collector.idx, collector.result)
              /\ writes' = Counted(writes, collector.idx)
              /\ poisoned' = poisoned
              /\ collector' = [collector EXCEPT !.pc = "recv",
                                                !.remaining = @ - 1]
         ELSE /\ poisoned' = TRUE
              /\ collector' = [collector EXCEPT !.pc = "failed"]
              /\ UNCHANGED <<results, writes>>
    /\ Release(CollectorId)
    /\ UNCHANGED <<config, call, mainv, data, spawned, work_q, result_q, work_sender,
                   result_sender, worker, admission, runtime, timing, runner,
                   aggregator>>

\* Faulty variant: the result of join() is never an error.
JoinAlwaysOk(w) == FALSE

\* handle.join() is Err: the worker's thread has panicked.
JoinErr(w) == worker[w].pc = "failed"

\* for handle in handles { handle.join().unwrap(); }
JoinWorker ==
    /\ At("join_worker")
    /\ IF k < Len(worker)
         THEN /\ ~WorkerAlive(k + 1)
              /\ IF JoinErr(k + 1) THEN Panic ELSE Loop
         ELSE Advance
    /\ UNCHANGED <<config, call, data, buffer, spawned, flume, admission, runtime,
                   timing, runner, aggregator>>

\* collector_handle.join().unwrap();
JoinCollector ==
    /\ At("join_collector")
    /\ ~ResultReceiverAlive
    /\ IF collector.pc = "failed" THEN Panic ELSE Advance
    /\ UNCHANGED <<config, call, data, buffer, spawned, flume, admission, runtime,
                   timing, runner, aggregator>>

(***************************************************************************)
(* One trial of one adapter.                                               *)
(***************************************************************************)
NoAggregation ==
    /\ all_results = <<>>
    /\ overall_best = <<>>
    /\ sorted_by_avg = <<>>
    /\ category_view = <<>>
    /\ percent = <<>>

NoCall == call_value = <<0, 0>> /\ result = <<0, 0>>

NoDispatch ==
    /\ k = 0 /\ iter = 0 /\ faults = 0
    /\ data = <<>>
    /\ results = <<>> /\ writes = <<>> /\ lock = {} /\ poisoned = FALSE
    /\ unit = <<>> /\ task = <<>> /\ chunks = <<>>
    /\ work_q = <<>> /\ result_q = <<>>
    /\ work_sender = FALSE /\ result_sender = FALSE
    /\ worker = <<>> /\ collector = NoCollector
    /\ permits = 0
    /\ budget = 0 /\ yielded = 0 /\ all_futures = <<>>
    /\ runtime = "none"
    /\ clock = "unset" /\ duration = 0 /\ best = DurationSentinel
    /\ times = <<>> /\ avg = 0

InitTrial == mpc = "gen" /\ NoDispatch /\ NoCall

Init ==
    /\ adapter \in Adapters
    /\ data_size \in 0..MaxSize
    /\ num_cpus \in 1..MaxCpus
    /\ iterations = 1
    /\ InitTrial
    /\ bench_results = <<>> /\ pending = <<>>
    /\ NoAggregation

MainStep ==
    \/ Gen \/ StartClock \/ RuntimeNew \/ Alloc \/ StopClock \/ Record
    \/ RuntimeDrop
    \/ SpawnUnit \/ Join \/ ScopeEnd
    \/ MakeChunks \/ SpawnTask \/ JoinTask
    \/ SpawnRows \/ SpawnGroup
    \/ PushFuture \/ JoinAll
    \/ Channels \/ SpawnWorker \/ SendWork \/ DropWorkSender
    \/ DropResultSender \/ SpawnCollector \/ JoinWorker \/ JoinCollector

UnitStep ==
    \/ \E u \in Units : AcquirePermit(u) \/ Compute(u) \/ Lock(u) \/ Write(u)
    \/ \E t \in 1..Len(task) : TaskScope(t) \/ TaskScopeEnd(t)
    \/ \E w \in Workers : WorkerRecv(w) \/ WorkerCompute(w) \/ WorkerSend(w)
    \/ CollectorRecv \/ CollectorLock \/ CollectorWrite

Next == MainStep \/ UnitStep

Spec == Init /\ [][Next]_vars


(***************************************************************************)
(* SpecFault: the environment may end a unit abnormally (a panic) before   *)
(* it has written its slot.  A panic unwinds: the unit's guard and permit  *)
(* are dropped, and a guard dropped during a panic poisons the Mutex.      *)
(***************************************************************************)
UnitFail(u) ==
    /\ u \in Units
    /\ faults < MaxFaults
    /\ unit[u].pc \in {"pending", "ready", "computed", "holding"}
    /\ Runnable(u)
    /\ unit' = [unit EXCEPT ![u].pc = "failed", ![u].permit = FALSE]
    /\ permits' = ReleasePermit(permits, unit[u].permit)
    /\ lock' = lock \ {UnitId(u)}
    /\ poisoned' = (poisoned \/ unit[u].pc = "holding")
    /\ faults' = faults + 1
    /\ IF adapter \in BoundedAdmission
         THEN mpc' = "panicked" /\ UNCHANGED <<k, iter>>
         ELSE UNCHANGED <<mpc, k, iter>>
    /\ UNCHANGED <<config, call, data, results, writes, task, chunks, flume, coop,
                   runtime, timing, runner, aggregator>>

WorkerFail(w) ==
    /\ w \in Workers
    /\ faults < MaxFaults
    /\ worker[w].pc \in {"got", "computed"}
    /\ worker' = [worker EXCEPT ![w].pc = "failed"]
    /\ faults' = faults + 1
    /\ UNCHANGED <<config, call, mpc, k, iter, data, buffer, spawned, work_q,
                   result_q, work_sender, result_sender, collector, admission,
                   runtime, timing, runner, aggregator>>

Fault == (\E u \in Units : UnitFail(u)) \/ (\E w \in Workers : WorkerFail(w))

NextFault == Next \/ Fault

\* The trials of Init over workloads of at most MaxFaultSize values.
InitFault == Init /\ data_size <= MaxFaultSize

SpecFault == InitFault /\ [][NextFault]_vars

SomeUnitFailed ==
    \/ \E u \in Units : unit[u].pc = "failed"
    \/ \E w \in Workers : worker[w].pc = "failed"
    \/ collector.pc = "failed"


(***************************************************************************)
(* SpecChunked: one trial of a chunked hybrid, over larger workloads.      *)
(***************************************************************************)
InitChunked ==
    /\ adapter \in ChunkedHybrid
    /\ data_size \in 0..MaxChunkedSize
    /\ num_cpus \in 1..MaxCpus
    /\ iterations = 1
    /\ InitTrial
    /\ bench_results = <<>> /\ pending = <<>>
    /\ NoAggregation

NextChunked ==
    \/ Gen \/ StartClock \/ RuntimeNew \/ Alloc \/ StopClock \/ Record
    \/ RuntimeDrop
    \/ MakeChunks \/ SpawnTask \/ JoinTask
    \/ \E t \in 1..Len(task) : TaskScope(t) \/ TaskScopeEnd(t)
    \/ \E u \in Units : Compute(u) \/ Lock(u) \/ Write(u)

SpecChunked == InitChunked /\ [][NextChunked]_vars

(***************************************************************************)
(* SpecRunner: a benchmark function running its backends one after the     *)
(* other, `iterations` trials each, then finalizing the backend's record.  *)
(* The dispatch is a black box that returns.                               *)
(***************************************************************************)
AsyncLibraries == <<"Tokio", "async-std", "smol">>
ParallelLibraries == <<"Rayon", "std::thread", "Crossbeam">>
HybridLibraries ==
    <<"Actix", "Tokio+Rayon", "async-std+Crossbeam", "Flume", "Nalgebra+Tokio",
      "AsyncGraphQL-pattern", "WGPU-pattern">>

\* Consecutive backends of one benchmark function, at most MaxBackends of them.
Windows(list) ==
    {SubSeq(list, i, j) : i \in 1..Len(list), j \in 1..Len(list)} \ {<<>>}

BackendRuns ==
    {w \in Windows(AsyncLibraries) \cup Windows(ParallelLibraries)
            \cup Windows(HybridLibraries) : Len(w) <= MaxBackends}

RECURSIVE Sum(_)
Sum(ts) == IF ts = <<>> THEN 0 ELSE Head(ts) + Sum(Tail(ts))

\* Faulty variant: the sum divided by one more than the count.
MeanOverNext(ts) == Sum(ts) \div (Len(ts) + 1)

\* times.iter().sum::<Duration>() / times.len() as u32
Mean(ts) == Sum(ts) \div Len(ts)

\* Faulty variant: the record keeps the first sample of the series only.
FirstSampleOnly(library, b, a, ts) ==
    [library |-> library, best_time |-> b, avg_time |-> a,
     all_times |-> SubSeq(ts, 1, 1)]

\* results.push(BenchmarkResult { library, best_time, avg_time, all_times });
BenchmarkResult(library, b, a, ts) ==
    [library |-> library, best_time |-> b, avg_time |-> a, all_times |-> ts]

InitRunner ==
    /\ pending \in BackendRuns
    /\ adapter = "none"
    /\ data_size = MaxSize
    /\ num_cpus = 1
    /\ iterations \in 0..MaxIter
    /\ mpc = "bench_begin"
    /\ NoDispatch /\ NoCall
    /\ bench_results = <<>>
    /\ NoAggregation

dispatch_state == <<buffer, spawned, flume, admission, runtime, faults>>

\* let mut x_times = Vec::with_capacity(iterations);
\* let mut x_best = Duration::from_secs(u64::MAX);
BeginBackend ==
    /\ mpc = "bench_begin"
    /\ pending # <<>>
    /\ adapter' = Head(pending)
    /\ pending' = Tail(pending)
    /\ times' = <<>>
    /\ best' = DurationSentinel
    /\ iter' = 0
    /\ mpc' = "bench_loop"
    /\ UNCHANGED <<data_size, num_cpus, iterations, call, k, data,
                   dispatch_state, clock, duration, avg, bench_results,
                   aggregator>>

\* 0..iterations yields i
InRange(i, n) == i < n

\* for _ in 0..iterations
LoopHead ==
    /\ mpc = "bench_loop"
    /\ mpc' = IF InRange(iter, iterations) THEN "bench_gen" ELSE "bench_finalize"
    /\ UNCHANGED <<config, call, k, iter, data, dispatch_state, timing, runner,
                   aggregator>>

TrialGen ==
    /\ mpc = "bench_gen"
    /\ \E seed \in Seeds : data' = Workload(seed, GenSize)
    /\ mpc' = "bench_start"
    /\ UNCHANGED <<config, call, k, iter, dispatch_state, timing, runner, aggregator>>

TrialStart ==
    /\ mpc = "bench_start"
    /\ clock' = "running"
    /\ mpc' = "bench_dispatch"
    /\ UNCHANGED <<config, call, k, iter, data, dispatch_state, duration, best,
                   times, avg, runner, aggregator>>

\* The adapter's dispatch, from the spawn of its units to the join of the
\* last of them.
Dispatch ==
    /\ mpc = "bench_dispatch"
    /\ mpc' = "bench_stop"
    /\ UNCHANGED <<config, call, k, iter, data, dispatch_state, timing, runner,
                   aggregator>>

TrialStop ==
    /\ mpc = "bench_stop"
    /\ \E d \in Durations : duration' = d
    /\ clock' = "stopped"
    /\ mpc' = "bench_record"
    /\ UNCHANGED <<config, call, k, iter, data, dispatch_state, best, times, avg,
                   runner, aggregator>>

TrialRecord ==
    /\ mpc = "bench_record"
    /\ best' = RunningBest(best, duration)
    /\ times' = Append(times, duration)
    /\ iter' = iter + 1
    /\ mpc' = "bench_loop"
    /\ UNCHANGED <<config, call, k, data, dispatch_state, clock, duration, avg,
                   runner, aggregator>>

\* Faulty variant: the new record takes the place of the last one.
OverwriteLast(v, x) == IF v = <<>> THEN <<x>> ELSE [v EXCEPT ![Len(v)] = x]

\* results.push(..)
push(v, x) == Append(v, x)

\* let x_avg = x_times.iter().sum::<Duration>() / x_times.len() as u32;
\* results.push(BenchmarkResult { .. });
\* Duration / 0u32 panics: "divide by zero error when dividing duration by
\* scalar".
Finalize ==
    /\ mpc = "bench_finalize"
    /\ IF Len(times) = 0
         THEN /\ mpc' = "panicked"
              /\ UNCHANGED <<avg, bench_results>>
         ELSE /\ avg' = Mean(times)
              /\ bench_results' =
                    push(bench_results,
                         BenchmarkResult(adapter, best, Mean(times), times))
              /\ mpc' = "bench_begin"
    /\ UNCHANGED <<config, call, k, iter, data, dispatch_state, clock, duration,
                   best, times, pending, aggregator>>

\* results
BenchReturn ==
    /\ mpc = "bench_begin"
    /\ pending = <<>>
    /\ mpc' = "bench_return"
    /\ UNCHANGED <<config, call, k, iter, data, dispatch_state, timing, runner,
                   aggregator>>

NextRunner ==
    \/ BeginBackend \/ LoopHead \/ TrialGen \/ TrialStart \/ Dispatch
    \/ TrialStop \/ TrialRecord \/ Finalize \/ BenchReturn

SpecRunner == InitRunner /\ [][NextRunner]_vars


(***************************************************************************)
(* SpecAgg: the aggregator of main(), from the combined list of records to *)
(* the last printed table.                                                 *)
(***************************************************************************)
Categories == <<"Asynchronous", "Parallel", "Hybrid">>

LibrariesOf(category) ==
    CASE category = "Asynchronous" -> AsyncLibraries
      [] category = "Parallel" -> ParallelLibraries
      [] category = "Hybrid" -> HybridLibraries

\* BenchmarkResult { category, library, best_time, avg_time, .. } of main.rs
CategoryResult(category, library, b, a) ==
    [category |-> category, library |-> library, best_time |-> b,
     avg_time |-> a]

\* The records a benchmark function hands over: a best and a mean per library,
\* in nanoseconds, the best no larger than the mean.
Nanos == 0..MaxNanos

Timings == {t \in Nanos \X Nanos : t[1] <= t[2]}

\* for result in x_results { all_results.push(BenchmarkResult { .. }) }
Pushed(category, ts) ==
    [i \in 1..Len(ts) |->
        CategoryResult(category, LibrariesOf(category)[i], ts[i][1], ts[i][2])]

\* Records per category: <<asynchronous, parallel, hybrid>>.
RecordCounts ==
    {n \in (0..Len(AsyncLibraries)) \X (0..Len(ParallelLibraries))
            \X (0..Len(HybridLibraries)) :
        n[1] + n[2] + n[3] \in 0..MaxRecords}

Combined(n) ==
    {Pushed("Asynchronous", a) \o Pushed("Parallel", p) \o Pushed("Hybrid", h) :
        a \in [1..n[1] -> Timings],
        p \in [1..n[2] -> Timings],
        h \in [1..n[3] -> Timings]}

\* f64 values of the percentage computation: a ratio num / den, NaN or +inf.
\* Nanosecond counts below 2^53 convert to f64 exactly, and value / reference
\* rounds to 1.0 only when value = reference, so the sign and the zero of the
\* result are those of the exact ratio.
Ratio(num, den) == [kind |-> "finite", num |-> num, den |-> den]
NaN == [kind |-> "NaN", num |-> 0, den |-> 0]
Infinity == [kind |-> "inf", num |-> 0, den |-> 0]

\* ((value.as_nanos() as f64 / reference) - 1.0) * 100.0
percent_slower(value, reference) ==
    IF reference = 0
      THEN IF value = 0 THEN NaN ELSE Infinity
      ELSE Ratio((value - reference) * 100, reference)

\* Faulty variant: a sort that fills the places of records with equal keys
\* with the first of them.
SortKeepFirst(v, key) ==
    LET n == Len(v)
        first(i) == CHOOSE j \in 1..n :
                        /\ v[j][key] = v[i][key]
                        /\ \A h \in 1..n : v[h][key] = v[i][key] => j <= h
        place(i) ==
            1 + Cardinality({j \in 1..n :
                    \/ v[j][key] < v[i][key]
                    \/ v[j][key] = v[i][key] /\ j < i})
    IN  [p \in 1..n |-> v[first(CHOOSE i \in 1..n : place(i) = p)]]

\* slice::sort_by_key on the field key: a stable sort, so an element's place
\* is the number of elements with a smaller key, or an equal key and an
\* earlier place.
sort_by_key(v, key) ==
    LET n == Len(v)
        place(i) ==
            1 + Cardinality({j \in 1..n :
                    \/ v[j][key] < v[i][key]
                    \/ v[j][key] = v[i][key] /\ j < i})
    IN  [p \in 1..n |-> v[CHOOSE i \in 1..n : place(i) = p]]

InitAgg ==
    /\ \E n \in RecordCounts : all_results \in Combined(n)
    /\ overall_best = <<>>
    /\ sorted_by_avg = <<>>
    /\ category_view = [c \in {} |-> <<>>]
    /\ percent = [v \in {} |-> <<>>]
    /\ adapter = "none" /\ data_size = 0 /\ num_cpus = 1 /\ iterations = 1
    /\ mpc = "sort_by_best"
    /\ NoDispatch /\ NoCall
    /\ bench_results = <<>> /\ pending = <<>>

not_aggregator == <<config, call, k, iter, data, dispatch_state, timing, runner>>

\* all_results.sort_by_key(|r| r.best_time);
SortByBest ==
    /\ mpc = "sort_by_best"
    /\ all_results' = sort_by_key(all_results, "best_time")
    /\ mpc' = "overall_best"
    /\ UNCHANGED <<not_aggregator, overall_best, sorted_by_avg, category_view,
                   percent>>

\* let overall_best = &all_results[0];
OverallBest ==
    /\ mpc = "overall_best"
    /\ IF all_results = <<>>
         THEN mpc' = "panicked" /\ overall_best' = overall_best
         ELSE mpc' = "avg_table" /\ overall_best' = all_results[1]
    /\ UNCHANGED <<not_aggregator, all_results, sorted_by_avg, category_view,
                   percent>>

\* let best_time_nanos = overall_best.best_time.as_nanos() as f64;
best_time_nanos == overall_best.best_time

Extend(f, key, value) == [x \in DOMAIN f \cup {key} |-> IF x = key THEN value ELSE f[x]]

\* The "AVERAGE TIMES" table.
AvgTable ==
    /\ mpc = "avg_table"
    /\ sorted_by_avg' = sort_by_key(all_results, "avg_time")
    /\ percent' =
          Extend(percent, "avg",
                 [i \in 1..Len(all_results) |->
                    percent_slower(sorted_by_avg'[i].avg_time, best_time_nanos)])
    /\ mpc' = "best_table"
    /\ UNCHANGED <<not_aggregator, all_results, overall_best, category_view>>

\* The "BEST TIMES" table.
BestTable ==
    /\ mpc = "best_table"
    /\ percent' =
          Extend(percent, "best",
                 [i \in 1..Len(all_results) |->
                    percent_slower(all_results[i].best_time, best_time_nanos)])
    /\ mpc' = "category_table"
    /\ k' = 1
    /\ UNCHANGED <<config, call, iter, data, dispatch_state, timing, runner,
                   all_results, overall_best, sorted_by_avg, category_view>>

\* The three per-category tables, in the order of Categories.
CategoryTable ==
    /\ mpc = "category_table"
    /\ LET category == Categories[k]
           libs == sort_by_key(SelectSeq(all_results,
                                         LAMBDA r : r.category = category),
                               "best_time")
           category_best_time == IF libs # <<>> THEN libs[1].best_time ELSE 0
       IN  /\ category_view' = Extend(category_view, category, libs)
           /\ percent' =
                 Extend(percent, category,
                        [i \in 1..Len(libs) |->
                           percent_slower(libs[i].best_time, category_best_time)])
    /\ IF k < Len(Categories)
         THEN mpc' = mpc /\ k' = k + 1
         ELSE mpc' = "complete" /\ k' = 0
    /\ UNCHANGED <<config, call, iter, data, dispatch_state, timing, runner,
                   all_results, overall_best, sorted_by_avg>>

NextAgg == SortByBest \/ OverallBest \/ AvgTable \/ BestTable \/ CategoryTable

SpecAgg == InitAgg /\ [][NextAgg]_vars


(***************************************************************************)
(* SpecTrials: the iteration loop of one backend with its dispatches in    *)
(* full: at the end of the loop body the locals of the trial go out of     *)
(* scope and the next iteration starts.                                    *)
(***************************************************************************)
InitTrials ==
    /\ adapter \in Adapters
    /\ data_size \in 0..MaxTrialSize
    /\ num_cpus \in 1..MaxCpus
    /\ iterations = MaxIter
    /\ InitTrial
    /\ bench_results = <<>> /\ pending = <<>>
    /\ NoAggregation

\* } of for _ in 0..iterations
NextTrial ==
    /\ mpc = "end"
    /\ iter < iterations
    /\ mpc' = "gen" /\ k' = 0
    /\ data' = <<>>
    /\ results' = <<>> /\ writes' = <<>>
    /\ unit' = <<>> /\ task' = <<>> /\ chunks' = <<>>
    /\ work_q' = <<>> /\ result_q' = <<>>
    /\ work_sender' = FALSE /\ result_sender' = FALSE
    /\ worker' = <<>> /\ collector' = NoCollector
    /\ permits' = 0
    /\ budget' = 0 /\ yielded' = 0 /\ all_futures' = <<>>
    /\ runtime' = "none"
    /\ clock' = "unset" /\ duration' = 0
    /\ UNCHANGED <<config, call, iter, faults, lock, poisoned, best, times, avg,
                   runner, aggregator>>

NextTrials == Next \/ NextTrial

SpecTrials == InitTrials /\ [][NextTrials]_vars

(***************************************************************************)
(* SpecFlume: one trial of the Flume adapter under fair scheduling: the    *)
(* main thread, every worker thread and the collector thread are OS        *)
(* threads, each of which takes its next step when it can.                 *)
(***************************************************************************)
InitFlume ==
    /\ adapter \in QueueCollector
    /\ data_size \in 0..MaxTrialSize
    /\ num_cpus \in 1..MaxCpus
    /\ iterations = 1
    /\ InitTrial
    /\ bench_results = <<>> /\ pending = <<>>
    /\ NoAggregation

FlumeMain ==
    \/ Gen \/ StartClock \/ Channels \/ SpawnWorker \/ SendWork
    \/ DropWorkSender \/ DropResultSender \/ SpawnCollector
    \/ JoinWorker \/ JoinCollector \/ StopClock \/ Record

NextFlume ==
    \/ FlumeMain
    \/ \E w \in Workers : WorkerRecv(w) \/ WorkerCompute(w) \/ WorkerSend(w)
    \/ CollectorRecv \/ CollectorLock \/ CollectorWrite

SpecFlume ==
    /\ InitFlume
    /\ [][NextFlume]_vars
    /\ WF_vars(FlumeMain)
    /\ \A w \in 1..MaxCpus :
          WF_vars(WorkerRecv(w) \/ WorkerCompute(w) \/ WorkerSend(w))
    /\ WF_vars(CollectorRecv \/ CollectorLock \/ CollectorWrite)

(***************************************************************************)
(* SpecKernel: concurrent calls of process_value, one OS thread per input  *)
(* (the std::thread adapter), with inputs that repeat within a workload.   *)
(***************************************************************************)
InitKernel ==
    /\ adapter = "std::thread"
    /\ data_size \in 0..MaxCalls
    /\ num_cpus \in 1..MaxCpus
    /\ iterations = 1
    /\ InitTrial
    /\ bench_results = <<>> /\ pending = <<>>
    /\ NoAggregation

NextKernel ==
    \/ Gen \/ StartClock \/ Alloc \/ SpawnUnit \/ Join \/ StopClock \/ Record
    \/ \E u \in Units : Compute(u) \/ Lock(u) \/ Write(u)

SpecKernel == InitKernel /\ [][NextKernel]_vars


(***************************************************************************)
(* SpecCall: one call of process_value, one pass of its loop per step, on  *)
(* small arguments, on the ends of the generator's range and on arguments  *)
(* around the places where 31 * value + 17 passes 2^31 and 2^32.           *)
(***************************************************************************)
KernelInputs ==
    {ToU32(v) : v \in 0..MaxInput}
        \cup {ToU32(GenRangeEnd - 1), ToU32(GenRangeEnd),
              ToU32(69273666), ToU32(138547331), ToU32(138547332),
              <<(Limb \div 2) - 1, Limb - 1>>, <<Limb \div 2, 0>>,
              <<Limb - 1, Limb - 1>>}

InitCall ==
    /\ call_value \in KernelInputs
    /\ result = <<0, 0>>
    /\ adapter = "none" /\ data_size = 0 /\ num_cpus = 1 /\ iterations = 1
    /\ mpc = "call"
    /\ NoDispatch
    /\ bench_results = <<>> /\ pending = <<>>
    /\ NoAggregation

not_call ==
    <<config, call_value, iter, faults, data, buffer, spawned, flume,
      admission, runtime, timing, runner, aggregator>>

\* let mut result = value;
CallEnter ==
    /\ mpc = "call"
    /\ result' = call_value
    /\ k' = 0
    /\ mpc' = "kernel_loop"
    /\ UNCHANGED not_call

\* for _ in 0..1000 { result = result.wrapping_mul(31).wrapping_add(17) % 10000; }
LoopBody ==
    /\ mpc = "kernel_loop"
    /\ InRange(k, Rounds)
    /\ result' = KernelStep[result]
    /\ k' = k + 1
    /\ mpc' = mpc
    /\ UNCHANGED not_call

\* result
CallReturn ==
    /\ mpc = "kernel_loop"
    /\ ~InRange(k, Rounds)
    /\ mpc' = "kernel_return"
    /\ UNCHANGED <<not_call, k, result>>

NextCall == CallEnter \/ LoopBody \/ CallReturn

SpecCall == InitCall /\ [][NextCall]_vars


(***************************************************************************)
(* SpecRows: one trial of the Nalgebra+Tokio adapter over matrices of up   *)
(* to MaxMatrixSize rows.                                                  *)
(***************************************************************************)
InitRows ==
    /\ adapter = "Nalgebra+Tokio"
    /\ data_size \in 0..(MaxMatrixSize * MaxMatrixSize)
    /\ num_cpus \in 1..MaxCpus
    /\ iterations = 1
    /\ InitTrial
    /\ bench_results = <<>> /\ pending = <<>>
    /\ NoAggregation

NextRows ==
    \/ Gen \/ StartClock \/ Alloc \/ RuntimeNew \/ SpawnRows \/ Join
    \/ StopClock \/ Record \/ RuntimeDrop
    \/ \E u \in Units : Compute(u) \/ Lock(u) \/ Write(u)

SpecRows == InitRows /\ [][NextRows]_vars


(***************************************************************************)
(* SpecGroups: one trial of the WGPU-pattern adapter over workloads of     *)
(* less than one workgroup and of one full workgroup plus a tail.          *)
(***************************************************************************)
InitGroups ==
    /\ adapter = "WGPU-pattern"
    /\ data_size \in {full + tail : full \in {0, WORKGROUP_SIZE}, tail \in 0..MaxTail}
    /\ num_cpus \in 1..MaxCpus
    /\ iterations = 1
    /\ InitTrial
    /\ bench_results = <<>> /\ pending = <<>>
    /\ NoAggregation

NextGroups ==
    \/ Gen \/ StartClock \/ Alloc \/ SpawnGroup \/ ScopeEnd \/ StopClock
    \/ Record
    \/ \E u \in Units : Compute(u) \/ Lock(u) \/ Write(u)

SpecGroups == InitGroups /\ [][NextGroups]_vars


(***************************************************************************)
(* SpecAdmission: one trial of the AsyncGraphQL-pattern adapter over       *)
(* workloads of a few futures and of a few futures more than the budget of *)
(* one poll.                                                               *)
(***************************************************************************)
InitAdmission ==
    /\ adapter = "AsyncGraphQL-pattern"
    /\ data_size \in {full + over : full \in {0, CoopBudget}, over \in 0..MaxOver}
    /\ num_cpus \in 1..MaxCpus
    /\ iterations = 1
    /\ InitTrial
    /\ bench_results = <<>> /\ pending = <<>>
    /\ NoAggregation

NextAdmission ==
    \/ Gen \/ StartClock \/ RuntimeNew \/ Alloc \/ PushFuture \/ JoinAll
    \/ StopClock \/ Record \/ RuntimeDrop
    \/ LET polled == Polled
       IN  \E u \in {polled[i] : i \in 1..Len(polled)} :
              AcquirePermit(u) \/ Compute(u) \/ Lock(u) \/ Write(u)

SpecAdmission == InitAdmission /\ [][NextAdmission]_vars


(***************************************************************************)
(* SpecMain: main() of the async_runtimes program.  One loop over the      *)
(* iterations; each iteration generates one workload and runs every        *)
(* framework on a clone of its Arc, keeping a best and a list of durations *)
(* per framework.  The dispatch is a black box that returns.               *)
(***************************************************************************)
Frameworks ==
    <<"Actix", "Tokio", "async-std", "smol", "Rayon", "std::thread",
      "Crossbeam">>

\* Consecutive frameworks of main(), at most MaxBackends of them.
FrameworkRuns == {w \in Windows(Frameworks) : Len(w) <= MaxBackends}

\* let mut x_best = Duration::from_secs(u64::MAX);
\* let mut x_durations = Vec::with_capacity(ITERATIONS);
Tracker(library) == BenchmarkResult(library, DurationSentinel, 0, <<>>)

InitMain ==
    /\ \E w \in FrameworkRuns :
          bench_results = [j \in 1..Len(w) |-> Tracker(w[j])]
    /\ pending = <<>>
    /\ adapter = "none"
    /\ data_size = MaxSize
    /\ num_cpus = 1
    /\ iterations \in 1..MaxIter
    /\ mpc = "main_loop"
    /\ NoDispatch /\ NoCall
    /\ NoAggregation

\* for i in 0..ITERATIONS
MainLoop ==
    /\ mpc = "main_loop"
    /\ mpc' = IF InRange(iter, iterations) THEN "main_gen" ELSE "main_report"
    /\ UNCHANGED <<config, call, k, iter, data, dispatch_state, timing, runner,
                   aggregator>>

\* let data: Vec<u32> = (0..10000).map(|_| rng.gen_range(0..10000)).collect();
\* let data_arc = Arc::new(data);
MainGen ==
    /\ mpc = "main_gen"
    /\ \E seed \in Seeds : data' = Workload(seed, data_size)
    /\ k' = 0
    /\ pending' = [j \in 1..Len(bench_results) |-> bench_results[j].library]
    /\ mpc' = "main_clone"
    /\ UNCHANGED <<config, call, iter, dispatch_state, timing, bench_results,
                   aggregator>>

\* let x_data = data_arc.clone();   (k counts the clones of this data_arc)
MainClone ==
    /\ mpc = "main_clone"
    /\ pending # <<>>
    /\ adapter' = Head(pending)
    /\ pending' = Tail(pending)
    /\ k' = k + 1
    /\ mpc' = "main_start"
    /\ UNCHANGED <<data_size, num_cpus, iterations, call, iter, data,
                   dispatch_state, timing, bench_results, aggregator>>

\* let start = Instant::now();
MainStart ==
    /\ mpc = "main_start"
    /\ clock' = "running"
    /\ mpc' = "main_dispatch"
    /\ UNCHANGED <<config, call, k, iter, data, dispatch_state, duration, best,
                   times, avg, runner, aggregator>>

\* The framework's dispatch over x_data, from its setup to its last join.
MainDispatch ==
    /\ mpc = "main_dispatch"
    /\ mpc' = "main_stop"
    /\ UNCHANGED <<config, call, k, iter, data, dispatch_state, timing, runner,
                   aggregator>>

\* let x_duration = start.elapsed();
MainStop ==
    /\ mpc = "main_stop"
    /\ \E d \in Durations : duration' = d
    /\ clock' = "stopped"
    /\ mpc' = "main_record"
    /\ UNCHANGED <<config, call, k, iter, data, dispatch_state, best, times, avg,
                   runner, aggregator>>

\* x_durations.push(x_duration);
\* if x_duration < x_best { x_best = x_duration; }
MainRecord ==
    /\ mpc = "main_record"
    /\ bench_results' =
          [j \in 1..Len(bench_results) |->
              LET r == bench_results[j]
              IN  IF r.library = adapter
                    THEN [r EXCEPT !.all_times = Append(@, duration),
                                   !.best_time = RunningBest(@, duration)]
                    ELSE r]
    /\ mpc' = "main_clone"
    /\ UNCHANGED <<config, call, k, iter, data, dispatch_state, timing, pending,
                   aggregator>>

\* } of for i in 0..ITERATIONS: data_arc and its clones go out of scope
MainEndIteration ==
    /\ mpc = "main_clone"
    /\ pending = <<>>
    /\ data' = <<>>
    /\ k' = 0
    /\ iter' = iter + 1
    /\ mpc' = "main_loop"
    /\ UNCHANGED <<config, call, dispatch_state, timing, runner, aggregator>>

\* let x_avg = x_durations.iter().sum::<Duration>() / x_durations.len() as u32;
MainReport ==
    /\ mpc = "main_report"
    /\ bench_results' =
          [j \in 1..Len(bench_results) |->
              [bench_results[j] EXCEPT
                  !.avg_time = Mean(bench_results[j].all_times)]]
    /\ mpc' = "main_done"
    /\ UNCHANGED <<config, call, k, iter, data, dispatch_state, timing, pending,
                   aggregator>>

NextMain ==
    \/ MainLoop \/ MainGen \/ MainClone \/ MainStart \/ MainDispatch
    \/ MainStop \/ MainRecord \/ MainEndIteration \/ MainReport

SpecMain == InitMain /\ [][NextMain]_vars

(***************************************************************************)
(* Properties.                                                             *)
(***************************************************************************)
Slots == 0..(len(data) - 1)

\* C1: after the dispatch of an independent-spawn adapter (Tokio, async-std,
\* smol, Actix, Rayon, std::thread, Crossbeam) has returned, for a workload
\* of size S >= 1 and whatever the interleaving of its units, slot i of the
\* result buffer holds Kernel(Workload[i]) for every i in [0, S).
C1_IndependentSpawnSlots ==
    (adapter \in IndependentSpawn /\ Returned /\ data_size >= 1) =>
        /\ DOMAIN results = 0..(data_size - 1)
        /\ \A i \in 0..(data_size - 1) : results[i] = Kernel[data[i]]

C1_Witness ==
    /\ adapter \in IndependentSpawn
    /\ Returned
    /\ data_size >= 2
    /\ \A i \in 0..(data_size - 1) : results[i] = Kernel[data[i]]
    /\ \E i, j \in 0..(data_size - 1) : results[i] # results[j]

\* C2: after the dispatch of a chunked hybrid (Tokio+Rayon, async-std+
\* Crossbeam) has returned, for every S >= 1 and P >= 1, every index in
\* [0, S) has been written exactly once, also when S is not a multiple of
\* the chunk size floor(S / P).
C2_ChunkedWritesOnce ==
    (adapter \in ChunkedHybrid /\ data_size >= 1 /\ Returned) =>
        \A i \in Slots : writes[i] = 1

\* C3: with S = 1 and every P >= 1, the dispatch of every adapter completes
\* without error and leaves the single slot equal to Kernel(Workload[0]).
C3_SingleUnitSucceeds ==
    data_size = 1 =>
        /\ mpc # "panicked"
        /\ Returned => (0 \in DOMAIN results /\ results[0] = Kernel[data[0]])

\* C4: in the Flume adapter, for every S >= 0, every number of workers >= 1
\* and every interleaving, each (index, value) pair put on the work queue
\* is at any time in exactly one place (the work queue, one worker, the
\* result queue, the collector, or written to its slot), carries the value
\* of its index, and when the dispatch has returned every index in [0, S)
\* has been written exactly once with Kernel(Workload[index]).
C4_FlumeExactlyOnce ==
    (adapter \in QueueCollector /\ Position(mpc) >= Position("spawn_worker")) =>
        LET sent == IF mpc = "send_work" THEN k
                    ELSE IF Position(mpc) > Position("send_work") THEN len(data)
                    ELSE 0
            queued(q, i) == Cardinality({j \in 1..Len(q) : q[j][1] = i})
            held(i) == Cardinality({w \in Workers :
                            /\ worker[w].pc \in {"got", "computed"}
                            /\ worker[w].idx = i})
            collecting(i) ==
                IF collector.pc \in {"got", "holding"} /\ collector.idx = i
                THEN 1 ELSE 0
        IN  /\ \A i \in Slots :
                  queued(work_q, i) + held(i) + queued(result_q, i)
                      + collecting(i) + writes[i]
                  = IF i < sent THEN 1 ELSE 0
            /\ \A j \in 1..Len(work_q) : work_q[j][2] = data[work_q[j][1]]
            /\ \A j \in 1..Len(result_q) :
                  result_q[j][2] = Kernel[data[result_q[j][1]]]
            /\ \A w \in Workers :
                  /\ worker[w].pc \in {"got", "computed"}
                        => worker[w].value = data[worker[w].idx]
                  /\ worker[w].pc = "computed"
                        => worker[w].processed = Kernel[data[worker[w].idx]]
            /\ \A i \in Slots : writes[i] = 1 => results[i] = Kernel[data[i]]
            /\ Returned => \A i \in Slots : writes[i] = 1

C4_Witness ==
    /\ adapter \in QueueCollector
    /\ Returned
    /\ num_cpus >= 2
    /\ data_size >= 2
    /\ \A i \in Slots : writes[i] = 1 /\ results[i] = Kernel[data[i]]

\* C5: in the AsyncGraphQL-pattern adapter with K = num_cpus permits, at
\* every moment of a dispatch at most K units hold a permit, a unit that
\* has finished holds none (the permits available and the permits held sum
\* to K), and all K permits are available when the dispatch has returned.
C5_BoundedAdmission ==
    (adapter \in BoundedAdmission /\ Position(mpc) > Position("alloc")) =>
        LET in_flight == Cardinality({u \in Units : unit[u].permit})
        IN  /\ in_flight <= num_cpus
            /\ permits >= 0
            /\ permits + in_flight = num_cpus
            /\ \A u \in Units : Finished(u) => ~unit[u].permit
            /\ Returned => permits = num_cpus

C5_Witness ==
    /\ adapter \in BoundedAdmission
    /\ \E u, v \in Units :
          /\ unit[u].pc = "done"
          /\ unit[v].permit
          /\ unit[v].pc = "holding"
    /\ permits = num_cpus - 1

\* C6: in every adapter, the holders of the lock are exactly the units that
\* are between lock() and the drop of the guard, at most one unit holds the
\* lock in any reachable state, and every step that writes a slot of the
\* shared buffer is taken by the one holder, which drops the guard with it.
C6_WritesUnderLock ==
    /\ [](/\ Cardinality(lock) <= 1
          /\ lock = {UnitId(u) : u \in {v \in Units : unit[v].pc = "holding"}}
                    \cup (IF collector.pc = "holding" THEN {CollectorId} ELSE {}))
    /\ [][(writes' # writes /\ mpc \notin {"alloc", "channels"})
            => (Cardinality(lock) = 1 /\ lock' = {})]_vars

C6_Witness ==
    \E u, v \in Units :
        /\ lock = {UnitId(u)}
        /\ unit[u].pc = "holding"
        /\ unit[v].pc = "computed"
        /\ \E i \in Slots : writes[i] = 1

\* C7: in every adapter, when a unit of a dispatch has terminated abnormally
\* the Trial Runner records no TimingSample for that dispatch.
C7_FailedDispatchNotRecorded ==
    SomeUnitFailed => times = <<>>

\* C8: with iterations = 0 the Trial Runner does not crash, and no record
\* with a best and a mean is produced.
C8_ZeroIterationsNoCrash ==
    iterations = 0 => (mpc # "panicked" /\ bench_results = <<>>)

\* C9: every record finalized from a series of n >= 1 durations has
\* best <= mean, where best is the minimum of the series and mean is the sum
\* of the series divided by n, truncated.
C9_BestAtMostMean ==
    \A j \in 1..Len(bench_results) :
        LET r == bench_results[j]
            n == Len(r.all_times)
        IN  n >= 1 =>
              /\ \A t \in 1..n : r.best_time <= r.all_times[t]
              /\ \E t \in 1..n : r.best_time = r.all_times[t]
              /\ r.avg_time * n <= Sum(r.all_times)
              /\ Sum(r.all_times) < (r.avg_time + 1) * n
              /\ r.best_time <= r.avg_time

C9_Witness ==
    \E j \in 1..Len(bench_results) :
        LET r == bench_results[j]
        IN  /\ Len(r.all_times) = 2
            /\ r.all_times[1] # r.all_times[2]
            /\ Sum(r.all_times) % 2 = 1
            /\ r.best_time <= r.avg_time

\* C10: for every non-empty set of records, when the aggregator has
\* completed, the Global-by-best view is non-decreasing in best time, its
\* first entry has the minimum best time, and the percentage computed for
\* that entry in the best-times table is exactly 0.
C10_GlobalByBest ==
    mpc = "complete" =>
        /\ \A i, j \in 1..Len(all_results) :
              i <= j => all_results[i].best_time <= all_results[j].best_time
        /\ overall_best = all_results[1]
        /\ \A i \in 1..Len(all_results) :
              overall_best.best_time <= all_results[i].best_time
        /\ percent["best"][1] = Ratio(0, overall_best.best_time)


\* f64 equality of two computed percentages (NaN taken as equal to NaN).
same_value(p, q) ==
    /\ p.kind = q.kind
    /\ p.kind = "finite" => p.num * q.den = q.num * p.den

is_zero(p) == p.kind = "finite" /\ p.num = 0

\* C11: when the aggregator has completed, the Global-by-mean view is
\* non-decreasing in mean time, each entry's percentage is
\* (mean / leader_mean - 1) * 100 with leader_mean the mean of the first entry
\* of that view, and the percentage of that first entry is 0.
C11_GlobalByMean ==
    mpc = "complete" =>
        /\ \A i, j \in 1..Len(sorted_by_avg) :
              i <= j => sorted_by_avg[i].avg_time <= sorted_by_avg[j].avg_time
        /\ \A i \in 1..Len(sorted_by_avg) :
              same_value(percent["avg"][i],
                         percent_slower(sorted_by_avg[i].avg_time,
                                        sorted_by_avg[1].avg_time))
        /\ is_zero(percent["avg"][1])


\* The records of one category, in the order of all_results.
OfCategory(c) == SelectSeq(all_results, LAMBDA r : r.category = c)

CategorySet == {Categories[i] : i \in 1..Len(Categories)}

\* C12: when the aggregator has completed, each per-category view holds the
\* records of its category only, in non-decreasing order of best time, each
\* percentage is computed against the best time of the first record of that
\* same view, and the percentage of that first record is 0.
C12_PerCategoryIsolation ==
    mpc = "complete" =>
        \A c \in CategorySet :
            LET view == category_view[c]
            IN  /\ Len(view) = Len(OfCategory(c))
                /\ \A i \in 1..Len(view) :
                      /\ view[i].category = c
                      /\ \E j \in 1..Len(all_results) : all_results[j] = view[i]
                /\ \A i, j \in 1..Len(view) :
                      i <= j => view[i].best_time <= view[j].best_time
                /\ Len(percent[c]) = Len(view)
                /\ \A i \in 1..Len(view) :
                      same_value(percent[c][i],
                                 percent_slower(view[i].best_time,
                                                view[1].best_time))
                /\ view # <<>> => is_zero(percent[c][1])


\* The place of a record in the order of the pushes of main(): the categories
\* in the order of Categories, the libraries of a category in the order in
\* which its benchmark function returns them.
insertion_index(r) ==
    (IndexOf(Categories, r.category) * (Len(HybridLibraries) + 1))
        + IndexOf(LibrariesOf(r.category), r.library)

\* Records of a view with equal keys are in insertion order.
TiesInInsertionOrder(view, key) ==
    \A i, j \in 1..Len(view) :
        (i < j /\ view[i][key] = view[j][key])
            => insertion_index(view[i]) < insertion_index(view[j])

\* C13: when the aggregator has completed, in each of the Global-by-best,
\* Global-by-mean and per-category views, two records with equal sort key
\* are in the order in which they were appended.
C13_StableTies ==
    mpc = "complete" =>
        /\ TiesInInsertionOrder(all_results, "best_time")
        /\ TiesInInsertionOrder(sorted_by_avg, "avg_time")
        /\ \A c \in CategorySet :
              TiesInInsertionOrder(category_view[c], "best_time")


\* No thread, task or future of the current dispatch is still running.
Quiescent ==
    /\ \A u \in Units : unit[u].pc \in {"done", "failed"}
    /\ \A t \in 1..Len(task) : task[t].pc \in {"done", "failed"}
    /\ \A w \in Workers : worker[w].pc \in {"exited", "failed"}
    /\ collector.pc \in {"unspawned", "exited", "failed"}
    /\ lock = {}

\* C14: at most one dispatch is inside its timed region: from the return of
\* a dispatch on none of its units is running, the loop goes to its next
\* iteration only in such a state, and the start-clock sample of a dispatch
\* is taken when no unit exists.
C14_OneDispatchAtATime ==
    /\ [](Returned => Quiescent)
    /\ []((clock = "running" /\ mpc # "panicked") => Position(mpc) \in
                (Position("start") + 1)..Position("stop"))
    /\ [][(mpc = "end" /\ mpc' = "gen") => Quiescent]_vars
    /\ [][(clock # "running" /\ clock' = "running")
            => (unit = <<>> /\ task = <<>> /\ worker = <<>>
                /\ collector.pc = "unspawned")]_vars

C14_Witness ==
    /\ iter >= 1
    /\ clock = "running"
    /\ \E u, v \in Units : unit[u].pc = "computed" /\ unit[v].pc = "holding"


\* Every unit of the dispatch has written all its cells and has ended.
AllCommitted ==
    /\ \A u \in Units : unit[u].pc = "done" /\ unit[u].todo = <<>>
    /\ \A t \in 1..Len(task) : task[t].pc = "done"
    /\ \A w \in Workers : worker[w].pc = "exited"
    /\ work_q = <<>> /\ result_q = <<>>
    /\ adapter \in QueueCollector
          => (collector.pc = "exited" /\ collector.remaining = 0)
    /\ lock = {}

\* C15: in every adapter and every interleaving, the end-of-dispatch clock
\* sample is taken only when every unit of the dispatch has committed its
\* writes, and no slot is written once the sample has been taken.
C15_StopAfterCommit ==
    /\ [][(clock = "running" /\ clock' = "stopped") => AllCommitted]_vars
    /\ [](clock = "stopped" => AllCommitted)
    /\ [][(clock = "stopped" /\ clock' = "stopped")
            => (results' = results /\ writes' = writes)]_vars

C15_Witness ==
    /\ clock = "stopped"
    /\ Len(unit) >= 2
    /\ \A i \in Slots : writes[i] = 1


\* C16: under fair scheduling and with no failing unit, every dispatch of
\* the Flume adapter returns, for every S >= 0: every worker exits, the
\* collector exits having received S results, and both joins complete.
C16_FlumeReturns ==
    <>(/\ mpc = "end"
       /\ \A w \in Workers : worker[w].pc = "exited"
       /\ Len(worker) = num_cpus
       /\ collector.pc = "exited"
       /\ collector.remaining = 0
       /\ Len(times) = 1)

C16_Witness ==
    /\ mpc = "end"
    /\ data_size = MaxTrialSize
    /\ Len(worker) >= 2
    /\ \A w \in Workers : worker[w].pc = "exited"
    /\ collector.pc = "exited"


\* C17: for every data size S, every adapter and every trial, the generated
\* workload and the result buffer both have length exactly S.
C17_LengthIsDataSize ==
    /\ mpc \notin {"gen", "panicked"} => len(data) = data_size
    /\ Returned => len(results) = data_size


\* A call of process_value whose result is held by its caller.
Computed(u) == u \in Units /\ unit[u].pc \in {"computed", "holding"}

RecordsOf(category) == SelectSeq(all_results, LAMBDA r : r.category = category)

Smallest(ts) == CHOOSE m \in {ts[i] : i \in 1..Len(ts)} :
                    \A i \in 1..Len(ts) : m <= ts[i]

\* C20: for every backend, after iter completed iterations the series holds
\* exactly iter samples, each new sample is appended after the earlier ones,
\* best is the smallest of the samples and not the sentinel, and at
\* finalization the series is as long as the configured iteration count.
C20_SeriesAndBest ==
    /\ [](Len(times) = iter /\ iter <= iterations)
    /\ [](Len(times) >= 1 =>
            (best = Smallest(times) /\ best # DurationSentinel))
    /\ [][iter' = iter + 1 => times' = Append(times, duration)]_vars
    /\ [][iter' # iter + 1 => (times' = times \/ (times' = <<>> /\ iter' = 0))]_vars
    /\ [](mpc = "bench_finalize" => Len(times) = iterations)
    /\ [](\A i \in 1..Len(bench_results) :
            /\ Len(bench_results[i].all_times) = iterations
            /\ bench_results[i].best_time = Smallest(bench_results[i].all_times))

\* A backend at finalization whose later sample is larger than its first.
C20_Witness ==
    /\ mpc = "bench_finalize"
    /\ bench_results # <<>>
    /\ Len(times) = iterations
    /\ Len(times) >= 2
    /\ times[1] < times[Len(times)]
    /\ best = times[1]


\* C21: at the finalization of a backend with n >= 1 samples the mean is the
\* sum of its n samples in nanoseconds divided by n, rounded down, and the
\* record pushed carries that backend's name, best, mean and whole series.
C21_MeanAndRecord ==
    /\ [][(mpc = "bench_finalize" /\ Len(times) >= 1)
            => /\ Len(bench_results') = Len(bench_results) + 1
               /\ SubSeq(bench_results', 1, Len(bench_results)) = bench_results
               /\ LET r == bench_results'[Len(bench_results')]
                      n == Len(times)
                  IN  /\ r.library = adapter
                      /\ r.best_time = best
                      /\ r.all_times = times
                      /\ r.avg_time = avg'
                      /\ r.avg_time * n <= Sum(times)
                      /\ Sum(times) < (r.avg_time + 1) * n]_vars
    /\ [](\A j \in 1..Len(bench_results) :
            LET r == bench_results[j]
            IN  r.avg_time = Sum(r.all_times) \div Len(r.all_times))

\* Two backends finalized, the second with a mean that is rounded down.
C21_Witness ==
    /\ mpc = "bench_begin"
    /\ Len(bench_results) = 2
    /\ bench_results[1].library # bench_results[2].library
    /\ bench_results[2].library = adapter
    /\ bench_results[2].all_times = times
    /\ Len(times) = 2
    /\ Sum(times) % 2 = 1
    /\ bench_results[2].avg_time = 0
    /\ bench_results[1].avg_time = 1


\* The names of the backends whose records have been pushed, in push order.
Finalized == [j \in 1..Len(bench_results) |-> bench_results[j].library]

\* The steps of one backend of a benchmark function, in program order.
BackendOrder ==
    <<"bench_loop", "bench_gen", "bench_start", "bench_dispatch", "bench_stop",
      "bench_record">>

InBackend == \E j \in 1..Len(BackendOrder) : mpc = BackendOrder[j]

\* C22: each backend goes through generate, start clock, dispatch, stop
\* clock, record in that order, iterations times, and is then finalized once;
\* its record is pushed before the first iteration of the next backend starts.
C22_BackendLifecycle ==
    /\ [][/\ mpc = "bench_loop" =>
                mpc' = IF iter < iterations THEN "bench_gen" ELSE "bench_finalize"
          /\ mpc = "bench_gen" => mpc' = "bench_start"
          /\ mpc = "bench_start" => (mpc' = "bench_dispatch" /\ clock' = "running")
          /\ mpc = "bench_dispatch" => mpc' = "bench_stop"
          /\ mpc = "bench_stop" => (mpc' = "bench_record" /\ clock' = "stopped")
          /\ mpc = "bench_record" =>
                (mpc' = "bench_loop" /\ iter' = iter + 1
                    /\ Len(times') = Len(times) + 1)
          /\ mpc # "bench_record" => (iter' = iter \/ (iter' = 0 /\ mpc = "bench_begin"))
          /\ mpc = "bench_finalize" =>
                /\ iter = iterations
                /\ mpc' = "bench_begin"
                /\ Finalized' = Append(Finalized, adapter)
          /\ mpc # "bench_finalize" => bench_results' = bench_results
          /\ mpc = "bench_begin" =>
                \/ (pending # <<>> /\ mpc' = "bench_loop" /\ iter' = 0
                        /\ times' = <<>> /\ adapter' = Head(pending)
                        /\ pending' = Tail(pending))
                \/ (pending = <<>> /\ mpc' = "bench_return")]_vars
    /\ [](InBackend =>
            /\ iter <= iterations /\ Len(times) = iter
            /\ (Finalized \o <<adapter>> \o pending) \in BackendRuns)
    /\ [](mpc = "bench_finalize" =>
            (Finalized \o <<adapter>> \o pending) \in BackendRuns)
    /\ [](mpc \in {"bench_begin", "bench_return"} =>
            (Finalized \o pending) \in BackendRuns)
    /\ [](\A i, j \in 1..Len(Finalized) : i # j => Finalized[i] # Finalized[j])


\* The main thread's steps that set a backend up: constructing the runtime,
\* allocating the result buffer (and the Semaphore), creating the channels,
\* cutting the chunks and spawning units, tasks, workers and the collector.
SetupSteps ==
    {"rt_new", "alloc", "channels", "chunks", "spawn", "spawn_task",
     "spawn_rows", "spawn_group", "push_future", "spawn_worker",
     "spawn_collector"}

C24_TeardownInsideClock ==
    clock = "stopped" => runtime # "alive"


\* C25: every trial is given a workload generated for that trial alone: the
\* workload a dispatch receives has been handed to no other dispatch.
C25_WorkloadPerTrial ==
    mpc = "main_dispatch" => k = 1


\* C26: for the Nalgebra+Tokio adapter with matrix size n, after a dispatch
\* completes slot i holds Kernel(values[i]) for every i in [0, n*n), values
\* being the generated sequence in generation order.
C26_MatrixSlots ==
    (adapter \in RowPartition /\ Returned) =>
        \A i \in 0..((matrix_size * matrix_size) - 1) :
            /\ i \in DOMAIN results
            /\ results[i] = Kernel[data[i]]


\* The rows given to task i of the Nalgebra+Tokio adapter.
RowRange(i) == {row \in 0..(matrix_size - 1) : start_row(i) <= row /\ row < end_row(i)}

RowTasks == 0..(Max(num_cpus, 1) - 1)

\* C27: for the Nalgebra+Tokio adapter, for every matrix size n and every
\* number of tasks P, the row ranges of the P tasks are pairwise disjoint
\* and their union is [0, n); each task works on the cells of its own rows,
\* and each of the n*n slots is written exactly once.
C27_RowRangesPartition ==
    /\ \A i, j \in RowTasks : i # j => RowRange(i) \cap RowRange(j) = {}
    /\ UNION {RowRange(i) : i \in RowTasks} = 0..(matrix_size - 1)
    /\ \A i \in RowTasks : start_row(i) <= end_row(i) /\ end_row(i) <= matrix_size
    /\ \A u \in Units : \A c \in 1..Len(unit[u].todo) :
          unit[u].todo[c].idx \div matrix_size \in RowRange(u - 1)
    /\ \A i \in DOMAIN writes : writes[i] <= 1
    /\ Returned =>
          /\ Len(unit) = Max(num_cpus, 1)
          /\ DOMAIN writes = 0..((matrix_size * matrix_size) - 1)
          /\ \A i \in DOMAIN writes : writes[i] = 1

\* A returned dispatch over a 3 x 3 matrix split between two tasks, one row
\* for the first and two for the last.
C27_Witness ==
    /\ Returned
    /\ matrix_size = 3
    /\ num_cpus = 2
    /\ RowRange(0) = {0}
    /\ RowRange(1) = {1, 2}
    /\ \A i \in 0..8 : writes[i] = 1


\* The workgroups of a workload of data_size items and the range of each.
GroupIds == 0..(((data_size + WORKGROUP_SIZE - 1) \div WORKGROUP_SIZE) - 1)

GroupStart(g) == g * WORKGROUP_SIZE

GroupEnd(g) == Min((g + 1) * WORKGROUP_SIZE, data_size)

GroupRange(g) == GroupStart(g)..(GroupEnd(g) - 1)

\* C28: for the WGPU-pattern adapter the ceil(S / W) workgroup ranges
\* [g*W, min((g+1)*W, S)) are pairwise disjoint and cover [0, S); each
\* spawned workgroup works through exactly its range, an index is written
\* once, when its workgroup reaches it, with Kernel(Workload[i]), and after
\* the dispatch every index in [0, S) has been written exactly once.
C28_WorkgroupsPartition ==
    /\ \A g, h \in GroupIds : g < h => GroupEnd(g) <= GroupStart(h)
    /\ \A g \in GroupIds : GroupStart(g) < GroupEnd(g)
    /\ \A i \in 0..(data_size - 1) : i \in GroupRange(i \div WORKGROUP_SIZE)
    /\ \A g \in GroupIds : GroupRange(g) \subseteq 0..(data_size - 1)
    /\ \A u \in Units :
          LET todo == unit[u].todo
              done == GroupEnd(u - 1) - Len(todo)
          IN  /\ (u - 1) \in GroupIds
              /\ GroupStart(u - 1) <= done
              /\ \A c \in 1..Len(todo) : todo[c].idx = done + c - 1
              /\ \A i \in GroupRange(u - 1) :
                    /\ writes[i] = IF i < done THEN 1 ELSE 0
                    /\ i < done => results[i] = Kernel[data[i]]
    /\ \A i \in DOMAIN writes : writes[i] <= 1
    /\ Returned =>
          /\ Len(unit) = Cardinality(GroupIds)
          /\ DOMAIN writes = 0..(data_size - 1)
          /\ \A i \in DOMAIN writes :
                writes[i] = 1 /\ results[i] = Kernel[data[i]]

\* A returned dispatch of one full workgroup and a tail of one item.
C28_Witness ==
    /\ Returned
    /\ data_size = WORKGROUP_SIZE + 1
    /\ Len(unit) = 2
    /\ GroupRange(1) = {WORKGROUP_SIZE}
    /\ \A i \in 0..WORKGROUP_SIZE : writes[i] = 1 /\ results[i] = Kernel[data[i]]


\* A worker of the queue-and-collector adapter has terminated abnormally.
FlumeWorkerFailed ==
    adapter \in QueueCollector /\ \E w \in Workers : worker[w].pc = "failed"

\* C29: in the queue-and-collector adapter, when a worker has terminated
\* abnormally before sending its result, the collector can stop only on the
\* disconnection of the result channel and with fewer than S slots written,
\* and the dispatch does not return normally: the main thread never gets
\* past the join of the workers and no TimingSample is recorded.
C29_FlumeFailureSurfaces ==
    FlumeWorkerFailed =>
        /\ times = <<>>
        /\ ~Returned
        /\ mpc \notin {"join_collector", "stop", "record", "end"}
        /\ collector.pc = "exited" =>
              /\ collector.remaining > 0
              /\ result_q = <<>>
              /\ ~ResultSendersAlive
              /\ Cardinality({i \in DOMAIN writes : writes[i] = 1})
                    = len(data) - collector.remaining
              /\ Cardinality({i \in DOMAIN writes : writes[i] = 1}) < data_size

\* A worker has failed, the collector has stopped with part of the slots
\* written, and the join of the failed worker has raised the failure.
C29_Witness ==
    /\ FlumeWorkerFailed
    /\ collector.pc = "exited"
    /\ collector.remaining > 0
    /\ \E i \in DOMAIN writes : writes[i] = 1
    /\ mpc = "panicked"
    /\ times = <<>>


\* C30: recording a TimingSample changes only the series and the running
\* best of the backend under trial; the record of every other backend, with
\* its series and best, is left unchanged by every later step.
C30_RecordingIsLocal ==
    /\ [][mpc = "bench_record" =>
            /\ times' = Append(times, duration)
            /\ best' \in {best, duration}
            /\ UNCHANGED <<bench_results, pending, config, call, data, avg>>]_vars
    /\ [][(times' # times \/ best' # best) =>
            mpc \in {"bench_record", "bench_begin"}]_vars
    /\ [][/\ Len(bench_results') >= Len(bench_results)
          /\ \A j \in 1..Len(bench_results) :
                bench_results'[j] = bench_results[j]]_vars
    /\ [](InBackend =>
            \A j \in 1..Len(bench_results) : bench_results[j].library # adapter)

\* The second backend has recorded its last sample; the record of the first
\* holds another series and another best.
C30_Witness ==
    /\ mpc = "bench_loop"
    /\ iter = 2
    /\ Len(bench_results) = 1
    /\ bench_results[1].library # adapter
    /\ bench_results[1].all_times # times
    /\ bench_results[1].best_time # best


\* The number of places of a view that hold the record r.
Occurrences(view, r) == Cardinality({i \in 1..Len(view) : view[i] = r})

RecordSet(view) == {view[i] : i \in 1..Len(view)}

\* Two views hold the same records, each the same number of times.
IsPermutation(view, other) ==
    /\ Len(view) = Len(other)
    /\ \A r \in RecordSet(view) \cup RecordSet(other) :
          Occurrences(view, r) = Occurrences(other, r)

EvenChunks ==
    /\ 1 <= num_cpus
    /\ num_cpus <= data_size
    /\ data_size % (data_size \div num_cpus) = 0

\* C32: in a chunked hybrid (Tokio+Rayon, async-std+Crossbeam) with
\* 1 <= P <= S and a chunk size floor(S / P) that divides S, all chunks have
\* the length floor(S / P), each task's offset chunk_idx * chunk_len is the
\* position of its chunk's first item in the workload, every unit targets the
\* slot of the item it holds, and when the dispatch has returned every index
\* in [0, S) has been written exactly once, with Kernel(Workload[i]).
C32_EvenChunksWriteAll ==
    (adapter \in ChunkedHybrid /\ EvenChunks) =>
        /\ mpc # "panicked"
        /\ \A j \in 1..Len(chunks) : Len(chunks[j]) = data_size \div num_cpus
        /\ Position(mpc) > Position("chunks") =>
              Len(chunks) * (data_size \div num_cpus) = data_size
        /\ \A t \in 1..Len(task) :
              LET offset == Offset(task[t].chunk_idx, task[t].chunk_data)
              IN  /\ offset = task[t].chunk_idx * (data_size \div num_cpus)
                  /\ \A i \in 1..Len(task[t].chunk_data) :
                        /\ offset + (i - 1) \in Slots
                        /\ task[t].chunk_data[i] = data[offset + (i - 1)]
        /\ \A u \in Units : \A c \in 1..Len(unit[u].todo) :
              /\ unit[u].todo[c].idx \in Slots
              /\ unit[u].todo[c].value = data[unit[u].todo[c].idx]
        /\ Returned =>
              /\ DOMAIN results = Slots
              /\ \A i \in Slots : writes[i] = 1 /\ results[i] = Kernel[data[i]]

\* A returned dispatch of two chunks of two items each, all four slots
\* written once with the Kernel of their items.
C32_Witness ==
    /\ adapter \in ChunkedHybrid
    /\ Returned
    /\ num_cpus = 2
    /\ data_size = 4
    /\ Len(task) = 2
    /\ Len(task[2].chunk_data) = 2
    /\ \A i \in Slots : writes[i] = 1 /\ results[i] = Kernel[data[i]]
    /\ results[1] # results[2]


\* Units between the acquisition of their permit and its release.
InFlight == {u \in Units : unit[u].permit}

\* Units that have begun (hold a permit or more) and not completed.
Begun == {u \in Units : unit[u].pc \in {"ready", "computed", "holding"}}

C34_ResultSendNeverFails ==
    /\ [](adapter \in QueueCollector =>
            /\ \A w \in Workers :
                  /\ worker[w].pc # "failed"
                  /\ worker[w].pc \in {"got", "computed"} => ResultReceiverAlive
            /\ collector.pc # "failed"
            /\ collector.pc = "exited" =>
                  /\ collector.remaining = 0
                  /\ \A i \in Slots : writes[i] = 1
                  /\ result_q = <<>>
                  /\ work_q = <<>>
                  /\ \A w \in Workers : worker[w].pc \in {"recv", "exited"})
    /\ [][(adapter \in QueueCollector /\ result_q' # result_q
                /\ Len(result_q') >= Len(result_q))
            => (ResultReceiverAlive /\ ResultReceiverAlive')]_vars

\* A worker about to send the last result while the main thread still holds
\* the receiver and an earlier result waits in the queue.
C34_Witness ==
    /\ adapter \in QueueCollector
    /\ data_size >= 2
    /\ collector.pc = "unspawned"
    /\ Len(result_q) = data_size - 1
    /\ \E w \in Workers : worker[w].pc = "computed"


\* The slots whose write count differs between two buffers.
Written(before, after) ==
    {i \in DOMAIN before \cap DOMAIN after : after[i] # before[i]}

\* C35: in every adapter a unit evaluates the Kernel while it does not hold
\* the lock (before and after that step), takes the lock only with the value
\* it has computed in hand, and holds it for one step only, which writes a
\* single slot and drops the guard; a unit that holds the lock never changes
\* its computed value, and the Kernel evaluation of one unit neither needs
\* nor takes the lock, so the evaluations of different units may overlap.
C35_KernelOutsideLock ==
    /\ [](\A u \in Units :
            UnitId(u) \in lock =>
                (unit[u].pc = "holding" /\ unit[u].todo # <<>>
                    /\ unit[u].processed = Kernel[Head(unit[u].todo).value]))
    /\ [](CollectorId \in lock => collector.pc = "holding")
    /\ [][\A u \in 1..Min(Len(unit), Len(unit')) :
            /\ (unit[u].pc = "ready" /\ unit'[u].pc = "computed") =>
                  /\ UnitId(u) \notin lock \cup lock'
                  /\ lock' = lock
                  /\ unit'[u].processed = Kernel[Head(unit[u].todo).value]
            /\ unit'[u].processed # unit[u].processed =>
                  (unit[u].pc = "ready" /\ UnitId(u) \notin lock \cup lock')
            /\ (UnitId(u) \notin lock /\ UnitId(u) \in lock') =>
                  (unit[u].pc = "computed" /\ unit'[u].processed = unit[u].processed)
            /\ (UnitId(u) \in lock /\ unit'[u] # unit[u]) =>
                  /\ UnitId(u) \notin lock'
                  /\ Written(writes, writes') = {Head(unit[u].todo).idx}
                  /\ Len(unit'[u].todo) = Len(unit[u].todo) - 1]_vars
    /\ [][\A w \in 1..Min(Len(worker), Len(worker')) :
            worker'[w].processed # worker[w].processed =>
                (lock' = lock /\ collector' = collector)]_vars
    /\ [][(CollectorId \in lock /\ collector' # collector) =>
            (CollectorId \notin lock'
                /\ Written(writes, writes') = {collector.idx})]_vars

\* Two units have evaluated the Kernel on different items and neither has
\* taken the lock yet, while one of them has already written an earlier item.
C35_Witness ==
    \E u, v \in Units :
        /\ u # v
        /\ lock = {}
        /\ unit[u].pc = "computed"
        /\ unit[v].pc = "computed"
        /\ Len(unit[v].todo) >= 1
        /\ \E i \in Slots : writes[i] = 1
        /\ Head(unit[u].todo).idx # Head(unit[v].todo).idx


\* An f64 that compares >= 0.0: a finite ratio with a non-negative numerator
\* or +inf, and never NaN.
NonNegative(p) ==
    \/ p.kind = "inf"
    \/ p.kind = "finite" /\ p.den > 0 /\ p.num >= 0

\* C36: every percentage computed by the aggregator is non-negative: in the
\* best-times table each best is >= the overall best, in the average table
\* each mean is >= the overall best, in each category table each best is >=
\* the best of the category's first record, and the value computed from them
\* compares >= 0.
C36_PercentNonNegative ==
    /\ "avg" \in DOMAIN percent =>
          \A i \in 1..Len(sorted_by_avg) :
              /\ sorted_by_avg[i].avg_time >= sorted_by_avg[i].best_time
              /\ sorted_by_avg[i].best_time >= best_time_nanos
              /\ NonNegative(percent["avg"][i])
    /\ "best" \in DOMAIN percent =>
          \A i \in 1..Len(all_results) :
              /\ all_results[i].best_time >= best_time_nanos
              /\ NonNegative(percent["best"][i])
    /\ \A c \in CategorySet \cap DOMAIN percent :
          \A i \in 1..Len(category_view[c]) :
              /\ category_view[c][i].best_time >= category_view[c][1].best_time
              /\ NonNegative(percent[c][i])


\* The number held in two limbs, for numbers below 2^31.
AsNumber(r) == (r[1] * Limb) + r[2]

\* In the generator's range.
Generated(r) == r[1] = 0 /\ r[2] < GenRangeEnd

\* C37: a call of process_value starts from result = value, passes through
\* its loop body exactly 1000 times and returns a value in [0, 9999]. Each
\* pass takes result to ((31 * result + 17) mod 2^32) mod 10000: with
\* 31 * lo + 17 = c * 2^16 + w_lo and 31 * hi + c = q * 2^16 + w_hi, the
\* product wrapped is w_hi * 2^16 + w_lo, and its remainder is
\* ((w_hi mod 10000) * (2^16 mod 10000) + w_lo) mod 10000; the pass from
\* 2^32 - 1 gives 7282. For every result below 10000 one pass gives
\* (31 * result + 17) mod 10000 computed without any wrapping, so for an
\* argument below 10000 no pass wraps (q = 0 at every pass) and the value
\* returned is that of the iteration on unbounded integers.
C37_KernelSteps ==
    /\ [](mpc = "call" =>
            \A r \in 0..(GenRangeEnd - 1) :
                /\ (Multiplier * r) + Increment < Limb * (Limb \div 4)
                /\ KernelStep[<<0, r>>] = <<0, ((Multiplier * r) + Increment) % Modulus>>)
    /\ [](mpc \in {"kernel_loop", "kernel_return"} =>
            /\ k <= Rounds
            /\ k = 0 => result = call_value
            /\ k >= 1 => Generated(result)
            /\ Generated(call_value) => Generated(result))
    /\ [](mpc = "kernel_return" =>
            /\ k = Rounds
            /\ k = 1000
            /\ result[1] = 0
            /\ result[2] \in 0..9999
            /\ result = Repeat(Rounds)[call_value]
            /\ Generated(call_value) => result[2] = process_value(call_value[2]))
    /\ [][mpc = "call" => (mpc' = "kernel_loop" /\ k' = 0 /\ result' = call_value)]_vars
    /\ [][mpc = "kernel_loop" =>
            IF k < 1000
              THEN LET lo == (31 * result[2]) + 17
                       c == lo \div Limb
                       hi == (31 * result[1]) + c
                       q == hi \div Limb
                       w_hi == hi % Limb
                       w_lo == lo % Limb
                   IN  /\ k' = k + 1
                       /\ mpc' = "kernel_loop"
                       /\ result' =
                            <<0, (((w_hi % 10000) * (Limb % 10000)) + w_lo) % 10000>>
                       /\ result = <<Limb - 1, Limb - 1>> => result' = <<0, 7282>>
                       /\ Generated(call_value) =>
                            /\ q = 0
                            /\ AsNumber(result') = ((31 * AsNumber(result)) + 17) % 10000
              ELSE mpc' = "kernel_return" /\ result' = result /\ k' = k]_vars

\* A call on 2^32 - 1, whose first pass wraps, has returned after 1000 passes.
C37_Witness ==
    /\ mpc = "kernel_return"
    /\ call_value = <<Limb - 1, Limb - 1>>
    /\ k = Rounds
    /\ result[1] = 0
    /\ result[2] < Modulus

====
